---- MODULE Spec2Model ----
(***************************************************************************)
(* Model of the curiefense request-inspection engine                       *)
(* (curieproxy/rust/curiefense): ACL resolution, decision merging, the     *)
(* flow / limit checkers and the staged analysis pipeline.                 *)
(***************************************************************************)
EXTENDS Integers, Sequences, FiniteSets, TLC

VARIABLES
    \* ---- ACL resolution (acl.rs) ----
    acl_tags,        \* names of the tags carried by the request (&Tags)
    acl_profile,     \* the AclProfile: six tag sets
    acl_is_human,    \* argument of AclResult::decision
    acl_result,      \* Option<AclResult>: None until check_acl has run
    acl_decision,    \* Option<Option<AclDecisionDetails>>
    \* ---- decision merging (interface/mod.rs) ----
    d1, d2,          \* the two Decision arguments
    merged,          \* Option<Decision>: merge_decisions(d1, d2)
    finals,          \* Option<[d1, d2, merged]>: Decision::is_final of each
    \* ---- the analysis pipeline of one request (analyze.rs) ----
    pc,              \* the phase the request is in
    conf,            \* APhase0 and the configuration snapshot of the request
    tags,            \* the request's Tags (tag names)
    p0_decision,     \* AnalysisInfo::p0_decision
    flow,            \* flow checks, LLEN replies, results
    limit,           \* limit checks, replies, EXPIRE pipeline, results
    redis,           \* the counter store
    trips,           \* round trips made to the counter store, in order
    logs,            \* the Logs::error calls, by origin
    evaluated,       \* which of check_acl / content_filter_check have run
    faults,          \* counter-store failures met so far: <<phase, kind>>
    result,          \* Option<AnalyzeResult>
    \* ---- the shared configuration and its reload (config/mod.rs) ----
    CONFIGS,         \* LockedConfig: the revisions held by config and hsdb
    disk,            \* the revision of the configuration files on disk
    reload,          \* Option: the hsdb reload_config has still to write
    rq,              \* one request: its phase and the revisions it used
    \* ---- the request entry points (lib.rs, incremental.rs) ----
    epc,             \* where the caller stands: start, open (IData held), closed
    ecfg,            \* the Config consulted and the request's meta
    idata,           \* Option<IData>: the incremental accumulator
    offered,         \* the headers and body chunks handed over so far
    ret,             \* Option<Result<..>>: what the last call returned
    \* ---- stronger_decision (interface/mod.rs) ----
    sd1,             \* the first SimpleDecision argument
    sd2,             \* the second SimpleDecision argument
    stronger,        \* Option<SimpleDecision>: stronger_decision(sd1, sd2)
    \* ---- global filter relations (config/globalfilter.rs, tagging.rs) ----
    gf_rel,          \* Relation of the configured GlobalFilterRelation
    gf_entries,      \* its entries as configured (Vec<GlobalFilterRule>)
    gf_optimized,    \* Option<GlobalFilterRule>: the rule convert_rule built
    gf_ip,           \* rinfo.rinfo.geoip.ip of the request (Option<IpAddr>)
    gf_matching,     \* Option of the two check_rule verdicts
    \* ---- the Field Store (requestfields.rs) ----
    rfield,          \* the RequestField: its decoding list and its fields
    rf_checks,       \* whether the build checks arithmetic overflow
    rf_added,        \* the add calls made so far, each with the fields before it
    rf_panicked,     \* whether an add call panicked
    \* ---- content-filter section check (contentfilter.rs) ----
    sc_in,           \* the arguments of section_check
    sc_out,          \* None, or its result and the Omitted entries
    \* ---- the Tag Set of a request (interface/tagging.rs) ----
    tg,              \* the Tags of the request: tag -> locations, and the virtual tags
    \* ---- concurrent requests of one flow sequence on one counter key (flow.rs) ----
    fl_key,          \* the list of the key in the counter store, and whether it has a TTL
    fl_reqs,         \* the requests: their flow check, position and LLEN reply
    \* ---- masking of the request information ----
    mk_raw,          \* the profile and the raw request
    mk_req,          \* the request information map_request built, if any
    mk_out,          \* the request information after masking, if any
    \* ---- reload_config calls running concurrently ----
    cr_config,       \* CONFIGS.config, each part with the revision of its file
    cr_disk,         \* the revision of each configuration file on disk
    cr_calls,        \* the reload_config calls: position, file names, local config
    \* ---- the C streaming API ----
    st_cfg,          \* the configuration and meta of the stream
    st_handle,       \* the CFStreamHandle behind the pointer, if any
    st_log,          \* the calls made on the handle and what they returned
    st_exec          \* what curiefense_stream_exec handed to its executor, if called

aclVars == <<acl_tags, acl_profile, acl_is_human, acl_result, acl_decision>>
mergeVars == <<d1, d2, merged, finals>>
pipeVars == <<pc, conf, tags, p0_decision, flow, limit, redis, trips, logs,
              evaluated, faults, result>>
entryVars == <<epc, ecfg, idata, offered, ret>>
reloadVars == <<CONFIGS, disk, reload, rq>>
strongerVars == <<sd1, sd2, stronger>>
filterVars == <<gf_rel, gf_entries, gf_optimized, gf_ip, gf_matching>>
fieldVars == <<rfield, rf_checks, rf_added, rf_panicked>>
sectionVars == <<sc_in, sc_out>>
tagVars == <<tg>>
flowVars == <<fl_key, fl_reqs>>
maskVars == <<mk_raw, mk_req, mk_out>>
creloadVars == <<cr_config, cr_disk, cr_calls>>
streamVars == <<st_cfg, st_handle, st_log, st_exec>>
nonAclVars == <<mergeVars, pipeVars, entryVars, reloadVars,
        strongerVars, filterVars, fieldVars, sectionVars,
        tagVars, flowVars, maskVars, creloadVars, streamVars>>
nonMergeVars == <<aclVars, pipeVars, entryVars, reloadVars, strongerVars,
        filterVars, fieldVars, sectionVars, tagVars, flowVars,
        maskVars, creloadVars, streamVars>>
nonPipeVars == <<aclVars, mergeVars, entryVars, reloadVars,
        strongerVars, filterVars, fieldVars, sectionVars,
        tagVars, flowVars, maskVars, creloadVars, streamVars>>
nonEntryVars == <<aclVars, mergeVars, pipeVars, reloadVars, strongerVars,
        filterVars, fieldVars, sectionVars, tagVars, flowVars,
        maskVars, creloadVars, streamVars>>
nonReloadVars == <<aclVars, mergeVars, pipeVars, entryVars, strongerVars,
        filterVars, fieldVars, sectionVars, tagVars, flowVars,
        maskVars, creloadVars, streamVars>>
nonStrongerVars == <<aclVars, mergeVars, pipeVars, entryVars, reloadVars,
        filterVars, fieldVars, sectionVars, tagVars, flowVars,
        maskVars, creloadVars, streamVars>>
nonFilterVars == <<aclVars, mergeVars, pipeVars, entryVars, reloadVars,
        strongerVars, fieldVars, sectionVars, tagVars,
        flowVars, maskVars, creloadVars, streamVars>>
nonFieldVars == <<aclVars, mergeVars, pipeVars, entryVars, reloadVars,
        strongerVars, filterVars, sectionVars, tagVars,
        flowVars, maskVars, creloadVars, streamVars>>
nonSectionVars == <<aclVars, mergeVars, pipeVars, entryVars, reloadVars,
        strongerVars, filterVars, fieldVars, tagVars, flowVars,
        maskVars, creloadVars, streamVars>>
nonTagVars == <<aclVars, mergeVars, pipeVars, entryVars, reloadVars,
        strongerVars, filterVars, fieldVars, sectionVars,
        flowVars, maskVars, creloadVars, streamVars>>
nonFlowVars == <<aclVars, mergeVars, pipeVars, entryVars, reloadVars,
        strongerVars, filterVars, fieldVars, sectionVars,
        tagVars, maskVars, creloadVars, streamVars>>
nonMaskVars == <<aclVars, mergeVars, pipeVars, entryVars, reloadVars,
        strongerVars, filterVars, fieldVars, sectionVars,
        tagVars, flowVars, creloadVars, streamVars>>
nonCreloadVars == <<aclVars, mergeVars, pipeVars, entryVars, reloadVars,
        strongerVars, filterVars, fieldVars, sectionVars,
        tagVars, flowVars, maskVars, streamVars>>
nonStreamVars == <<aclVars, mergeVars, pipeVars, entryVars, reloadVars,
        strongerVars, filterVars, fieldVars, sectionVars,
        tagVars, flowVars, maskVars, creloadVars>>
vars == <<aclVars, mergeVars, pipeVars, entryVars, reloadVars,
        strongerVars, filterVars, fieldVars, sectionVars,
        tagVars, flowVars, maskVars, creloadVars, streamVars>>

(***************************************************************************)
(* Option<T>                                                               *)
(***************************************************************************)
None == <<>>
Some(x) == <<x>>
IsSome(o) == o /= <<>>
Unwrap(o) == o[1]

\* no request is at an entry point
EntryIdle ==
    /\ epc = "off"
    /\ ecfg = <<>>
    /\ idata = None
    /\ offered = <<>>
    /\ ret = None

\* stronger_decision is not being called
StrongerIdle ==
    /\ sd1 = <<>>
    /\ sd2 = <<>>
    /\ stronger = None

\* no RequestField is built
FieldIdle ==
    /\ rfield = <<>>
    /\ rf_checks = FALSE
    /\ rf_added = <<>>
    /\ rf_panicked = FALSE

\* no global filter relation is configured
FilterIdle ==
    /\ gf_rel = ""
    /\ gf_entries = <<>>
    /\ gf_optimized = None
    /\ gf_ip = None
    /\ gf_matching = None

\* section_check is not being called
SectionIdle ==
    /\ sc_in = <<>>
    /\ sc_out = None

\* no Tag Set is built
TagsIdle == tg = <<>>

\* no flow sequence is followed
FlowIdle ==
    /\ fl_key = <<>>
    /\ fl_reqs = <<>>

\* no request is being masked
MaskIdle ==
    /\ mk_raw = <<>>
    /\ mk_req = <<>>
    /\ mk_out = <<>>

\* no reload_config call is followed
CreloadIdle ==
    /\ cr_config = <<>>
    /\ cr_disk = <<>>
    /\ cr_calls = <<>>

\* no stream handle exists
StreamIdle ==
    /\ st_cfg = <<>>
    /\ st_handle = <<>>
    /\ st_log = <<>>
    /\ st_exec = <<>>

\* no configuration is followed
ReloadIdle ==
    /\ CONFIGS = <<>>
    /\ disk = 0
    /\ reload = None
    /\ rq = <<>>

(***************************************************************************)
(* Bounds                                                                  *)
(***************************************************************************)
MaxReasons == 1
MaxListLen == 2      \* longest list a flow key holds when the request starts
MaxCount == 2        \* largest counter a limit key holds when the request starts
MaxThresholds == 2   \* thresholds configured per limit

(***************************************************************************)
(* ACL decision logic                                                      *)
(***************************************************************************)
TagNames == {"a", "b"}

\* Tags::intersect_tags, on tag names
intersect_tags(tgs, checks) == tgs \cap checks

\* the closure `subcheck` of check_acl
subcheck(tgs, checks, allowed) ==
    LET t == intersect_tags(tgs, checks)
    IN  IF t = {} THEN None ELSE Some([allowed |-> allowed, tags |-> t])

check_acl_skip_force_deny(tgs, acl) ==
    LET pt == subcheck(tgs, acl.passthrough, TRUE)
    IN  IF IsSome(pt) THEN [type |-> "Passthrough", pr |-> Unwrap(pt)]
        ELSE LET ab == subcheck(tgs, acl.allow_bot, TRUE)
                 db == subcheck(tgs, acl.deny_bot, FALSE)
                 ah == subcheck(tgs, acl.allow, TRUE)
                 dh == subcheck(tgs, acl.deny, FALSE)
             IN  [type |-> "Match",
                  bot |-> IF IsSome(ab) THEN ab ELSE db,
                  human |-> IF IsSome(ah) THEN ah ELSE dh]

check_acl(tgs, acl) ==
    LET fd == subcheck(tgs, acl.force_deny, FALSE)
        pt == subcheck(tgs, acl.passthrough, TRUE)
    IN  IF IsSome(fd) THEN [type |-> "Passthrough", pr |-> Unwrap(fd)]
        ELSE IF IsSome(pt) THEN [type |-> "Passthrough", pr |-> Unwrap(pt)]
        ELSE LET ab == subcheck(tgs, acl.allow_bot, TRUE)
                 db == subcheck(tgs, acl.deny_bot, FALSE)
                 ah == subcheck(tgs, acl.allow, TRUE)
                 dh == subcheck(tgs, acl.deny, FALSE)
             IN  [type |-> "Match",
                  bot |-> IF IsSome(ab) THEN ab ELSE db,
                  human |-> IF IsSome(ah) THEN ah ELSE dh]

AclDecisionDetails(stage, tgs, challenge) ==
    [stage |-> stage, tags |-> tgs, challenge |-> challenge]

\* the DenyBot arms of AclResult::decision with the challenge flags swapped
decision_swapped_challenge(r, is_human) ==
    IF r.type = "Passthrough"
    THEN Some(AclDecisionDetails(IF r.pr.allowed THEN "Bypass" ELSE "EnforceDeny",
                                 r.pr.tags, FALSE))
    ELSE LET bot == r.bot
             human == r.human
         IN  IF bot = None /\ human = None THEN None
             ELSE IF IsSome(bot) /\ Unwrap(bot).allowed
                     /\ IsSome(human) /\ ~Unwrap(human).allowed
             THEN Some(AclDecisionDetails("Deny", Unwrap(human).tags, FALSE))
             ELSE IF IsSome(bot) /\ Unwrap(bot).allowed
             THEN Some(AclDecisionDetails("AllowBot", Unwrap(bot).tags, FALSE))
             ELSE IF IsSome(bot) /\ ~Unwrap(bot).allowed
                     /\ IsSome(human) /\ ~Unwrap(human).allowed /\ ~is_human
             THEN Some(AclDecisionDetails("DenyBot", Unwrap(bot).tags, TRUE))
             ELSE IF IsSome(bot) /\ ~Unwrap(bot).allowed /\ ~is_human
             THEN Some(AclDecisionDetails("DenyBot", Unwrap(bot).tags, FALSE))
             ELSE IF IsSome(human)
             THEN Some(AclDecisionDetails(
                          IF Unwrap(human).allowed THEN "Allow" ELSE "Deny",
                          Unwrap(human).tags, FALSE))
             ELSE None

\* AclResult::decision with the (bot allow, human deny) arm dropped
decision_no_human_deny_arm(r, is_human) ==
    IF r.type = "Passthrough"
    THEN Some(AclDecisionDetails(IF r.pr.allowed THEN "Bypass" ELSE "EnforceDeny",
                                 r.pr.tags, FALSE))
    ELSE LET bot == r.bot
             human == r.human
         IN  IF bot = None /\ human = None THEN None
             ELSE IF IsSome(bot) /\ Unwrap(bot).allowed
             THEN Some(AclDecisionDetails("AllowBot", Unwrap(bot).tags, FALSE))
             ELSE IF IsSome(bot) /\ ~Unwrap(bot).allowed
                     /\ IsSome(human) /\ ~Unwrap(human).allowed /\ ~is_human
             THEN Some(AclDecisionDetails("DenyBot", Unwrap(bot).tags, FALSE))
             ELSE IF IsSome(bot) /\ ~Unwrap(bot).allowed /\ ~is_human
             THEN Some(AclDecisionDetails("DenyBot", Unwrap(bot).tags, TRUE))
             ELSE IF IsSome(human)
             THEN Some(AclDecisionDetails(
                          IF Unwrap(human).allowed THEN "Allow" ELSE "Deny",
                          Unwrap(human).tags, FALSE))
             ELSE None

\* AclResult::decision: the match arms in source order
decision(r, is_human) ==
    IF r.type = "Passthrough"
    THEN Some(AclDecisionDetails(IF r.pr.allowed THEN "Bypass" ELSE "EnforceDeny",
                                 r.pr.tags, FALSE))
    ELSE LET bot == r.bot
             human == r.human
         IN  IF bot = None /\ human = None THEN None
             ELSE IF IsSome(bot) /\ Unwrap(bot).allowed
                     /\ IsSome(human) /\ ~Unwrap(human).allowed
             THEN Some(AclDecisionDetails("Deny", Unwrap(human).tags, FALSE))
             ELSE IF IsSome(bot) /\ Unwrap(bot).allowed
             THEN Some(AclDecisionDetails("AllowBot", Unwrap(bot).tags, FALSE))
             ELSE IF IsSome(bot) /\ ~Unwrap(bot).allowed
                     /\ IsSome(human) /\ ~Unwrap(human).allowed /\ ~is_human
             THEN Some(AclDecisionDetails("DenyBot", Unwrap(bot).tags, FALSE))
             ELSE IF IsSome(bot) /\ ~Unwrap(bot).allowed /\ ~is_human
             THEN Some(AclDecisionDetails("DenyBot", Unwrap(bot).tags, TRUE))
             ELSE IF IsSome(human)
             THEN Some(AclDecisionDetails(
                          IF Unwrap(human).allowed THEN "Allow" ELSE "Deny",
                          Unwrap(human).tags, FALSE))
             ELSE None

AclProfiles ==
    [force_deny : SUBSET TagNames, passthrough : SUBSET TagNames,
     allow_bot : SUBSET TagNames, deny_bot : SUBSET TagNames,
     allow : SUBSET TagNames, deny : SUBSET TagNames]

AclIdle ==
    /\ acl_tags = {}
    /\ acl_profile = [force_deny |-> {}, passthrough |-> {}, allow_bot |-> {},
                      deny_bot |-> {}, allow |-> {}, deny |-> {}]
    /\ acl_is_human = FALSE
    /\ acl_result = None
    /\ acl_decision = None

AclInit ==
    /\ acl_tags \in SUBSET TagNames
    /\ acl_profile \in AclProfiles
    /\ acl_is_human \in BOOLEAN
    /\ acl_result = None
    /\ acl_decision = None

\* analyze_finish, lines 418-421: check_acl, then AclResult::decision
CheckAcl ==
    /\ acl_result = None
    /\ acl_result' = Some(check_acl(acl_tags, acl_profile))
    /\ acl_decision' = Some(decision(check_acl(acl_tags, acl_profile), acl_is_human))
    /\ UNCHANGED <<acl_tags, acl_profile, acl_is_human>>

(***************************************************************************)
(* Decisions (interface/mod.rs, config/raw.rs)                             *)
(***************************************************************************)
RawActionTypes == {"Skip", "Monitor", "Custom", "Challenge", "Ichallenge"}
ActionTypes == {"Skip", "Monitor", "Block"}

\* RawActionType::is_final
RawActionType_is_final(t) == t /= "Monitor"

\* ActionType::is_final
ActionType_is_final(t) == t /= "Monitor"

\* ActionType::priority with Skip below Block
ActionType_priority_skip_low(t) ==
    CASE t = "Block" -> 6
      [] t = "Monitor" -> 1
      [] t = "Skip" -> 0

\* ActionType::priority
ActionType_priority(t) ==
    CASE t = "Block" -> 6
      [] t = "Monitor" -> 1
      [] t = "Skip" -> 9

\* HashMap::extend: entries of h2 replace those of h1
MapExtend(h1, h2) == h2 @@ h1

\* Decision::is_final taken for Decision::blocked: only a Block action counts
is_final_block_only(d) ==
    IsSome(d.maction) /\ Unwrap(d.maction).atype = "Block"

\* Decision::is_final looking at the action only
is_final_action_only(d) ==
    IsSome(d.maction) /\ ActionType_is_final(Unwrap(d.maction).atype)

\* Decision::is_final
is_final(d) ==
    \/ (IsSome(d.maction) /\ ActionType_is_final(Unwrap(d.maction).atype))
    \/ \E i \in 1..Len(d.reasons) : RawActionType_is_final(d.reasons[i].action)

\* Decision::blocked
blocked(d) ==
    \E i \in 1..Len(d.reasons) : d.reasons[i].action \notin {"Monitor", "Skip"}

\* merge_decisions
merge_decisions(a, b) ==
    LET keepFirst ==
            IF IsSome(a.maction) /\ IsSome(b.maction)
            THEN ActionType_priority(Unwrap(a.maction).atype)
                     >= ActionType_priority(Unwrap(b.maction).atype)
            ELSE IF a.maction = None /\ IsSome(b.maction) THEN FALSE
            ELSE TRUE
        kept == IF keepFirst THEN a ELSE b
        thrown == IF keepFirst THEN b ELSE a
        throw_headers == IF IsSome(thrown.maction)
                         THEN Unwrap(thrown.maction).headers ELSE None
        maction ==
            IF IsSome(kept.maction) /\ Unwrap(kept.maction).atype = "Monitor"
            THEN LET action == Unwrap(kept.maction)
                 IN  Some([action EXCEPT !.headers =
                        IF IsSome(action.headers)
                        THEN Some(MapExtend(Unwrap(action.headers),
                                  IF IsSome(throw_headers)
                                  THEN Unwrap(throw_headers) ELSE <<>>))
                        ELSE throw_headers])
            ELSE kept.maction
    IN  [maction |-> maction, reasons |-> kept.reasons \o thrown.reasons]

HeaderMaps == {<<>>, "h" :> "v1", "h" :> "v2", "g" :> "v1"}
HeaderOptions == {None} \cup {Some(h) : h \in HeaderMaps}

\* Action values; `content` tells the two arguments' actions apart
Actions(content) ==
    [atype : ActionTypes, headers : HeaderOptions, content : {content}]

SeqsUpTo(S, n) == UNION {[1..k -> S] : k \in 0..n}

\* BlockReason values; `id` names the decision the reason was attached to
BlockReasons(id) == [id : {id}, action : RawActionTypes]

Decisions(id) ==
    [maction : {None} \cup {Some(a) : a \in Actions(id)},
     reasons : SeqsUpTo(BlockReasons(id), MaxReasons)]

MergeIdle ==
    /\ d1 = [maction |-> None, reasons |-> <<>>]
    /\ d2 = [maction |-> None, reasons |-> <<>>]
    /\ merged = None
    /\ finals = None

MergeInit ==
    /\ d1 \in Decisions("d1")
    /\ d2 \in Decisions("d2")
    /\ merged = None
    /\ finals = None

\* merge_decisions(d1, d2), then is_final as analyze_finish calls it
MergeDecisions ==
    /\ merged = None
    /\ merged' = Some(merge_decisions(d1, d2))
    /\ finals' = Some([d1 |-> is_final(d1), d2 |-> is_final(d2),
                       merged |-> is_final(merge_decisions(d1, d2))])
    /\ UNCHANGED <<d1, d2>>

(***************************************************************************)
(* Simple decisions and their materialisation (interface/mod.rs)           *)
(***************************************************************************)
\* SimpleActionT values
Skip == [t |-> "Skip"]
Monitor == [t |-> "Monitor"]
Custom(content) == [t |-> "Custom", content |-> content]
Challenge(ch_level) == [t |-> "Challenge", ch_level |-> ch_level]

\* SimpleAction
SimpleAction(atype, headers, status, extra_tags) ==
    [atype |-> atype, headers |-> headers, status |-> status,
     extra_tags |-> extra_tags]

\* SimpleActionT::priority
SimpleActionT_priority(atype) ==
    CASE atype.t = "Custom" -> 8
      [] atype.t = "Challenge" -> 6
      [] atype.t = "Monitor" -> 1
      [] atype.t = "Skip" -> 9

\* SimpleActionT::rate_limit_priority
rate_limit_priority(atype) ==
    CASE atype.t = "Custom" -> 8
      [] atype.t = "Challenge" -> 6
      [] atype.t = "Monitor" -> 1
      [] atype.t = "Skip" -> 0

\* SimpleActionT::to_raw
to_raw(atype) ==
    CASE atype.t = "Skip" -> "Skip"
      [] atype.t = "Monitor" -> "Monitor"
      [] atype.t = "Custom" -> "Custom"
      [] atype.t = "Challenge" ->
            IF atype.ch_level = "Active" THEN "Challenge" ELSE "Ichallenge"

\* SimpleDecision
Pass == [type |-> "Pass"]
SAction(action, reasons) ==
    [type |-> "Action", action |-> action, reasons |-> reasons]

\* the header merge of stronger_decision (lines 88-96)
MergeHeaderOptions(h1, h2) ==
    IF h1 = None /\ h2 = None THEN None
    ELSE IF h2 = None THEN h1
    ELSE IF h1 = None THEN h2
    ELSE Some(MapExtend(Unwrap(h1), Unwrap(h2)))

\* stronger_decision
stronger_decision(x, y) ==
    IF x.type = "Pass" THEN y
    ELSE IF y.type = "Pass" THEN x
    ELSE LET kept_reasons == x.reasons \o y.reasons
         IN  IF SimpleActionT_priority(x.action.atype)
                    > SimpleActionT_priority(y.action.atype)
             THEN SAction(x.action, kept_reasons)
             ELSE IF x.action.atype = Monitor /\ y.action.atype = Monitor
             THEN SAction([x.action EXCEPT !.headers =
                              MergeHeaderOptions(x.action.headers, y.action.headers)],
                          kept_reasons)
             ELSE SAction(y.action, kept_reasons)

\* PrecisionLevel::is_human, PrecisionLevel::is_interactive
PrecisionLevels == {"Active", "Interactive", "Invalid"}
PrecisionLevel_is_human(pl) == pl /= "Invalid" /\ pl /= "Emulator"
PrecisionLevel_is_interactive(pl) == pl = "Interactive" \/ pl = "MobileSdk"

\* Action (the materialised action of a Decision)
Action(atype, block_mode, status, headers, content) ==
    [atype |-> atype, block_mode |-> block_mode, status |-> status,
     headers |-> headers, content |-> content]

\* Action::default
Action_default == Action("Block", TRUE, 503, None, "request denied")

\* Decision
Decision(maction, reasons) == [maction |-> maction, reasons |-> reasons]
Decision_pass(reasons) == Decision(None, reasons)

\* BlockReason
BlockReason(id, initiator, action) ==
    [id |-> id, initiator |-> initiator, action |-> action]

\* RawActionType::inactive applied to every reason (build_decision, 829-831)
Inactive(reasons) ==
    [i \in 1..Len(reasons) |-> [reasons[i] EXCEPT !.action = "Monitor"]]

\* gh_fail_decision
gh_fail_decision ==
    Decision(Some(Action("Block", TRUE, 500, None, "internal_error")),
             <<BlockReason("phase01", [kind |-> "Phase01Fail"], "Custom")>>)

\* challenge_phase01; gh_ok is the outcome of Grasshopper::init_challenge
challenge_phase01(gh_ok, reasons) ==
    IF ~gh_ok THEN gh_fail_decision
    ELSE Decision(Some(Action("Block", TRUE, 247, Some("gh" :> "hdr"), "challenge")),
                  reasons)

\* SimpleAction::build_decision: [ok, decision] or [ok = FALSE, reasons]
build_decision(sa, precision_level, reason) ==
    IF sa.atype.t = "Challenge"
       /\ ~(IF sa.atype.ch_level = "Interactive"
            THEN PrecisionLevel_is_interactive(precision_level)
            ELSE PrecisionLevel_is_human(precision_level))
    THEN [ok |-> FALSE, reasons |-> reason]
    ELSE LET atype == CASE sa.atype.t = "Skip" -> "Skip"
                        [] sa.atype.t = "Monitor" -> "Monitor"
                        [] sa.atype.t = "Custom" -> "Block"
                        [] sa.atype.t = "Challenge" -> "Monitor"
             content == IF sa.atype.t = "Custom" THEN sa.atype.content
                        ELSE Action_default.content
             reasons == IF sa.atype.t = "Challenge" THEN Inactive(reason)
                        ELSE reason
         IN  [ok |-> TRUE,
              decision |-> Decision(
                  Some(Action(atype,
                              IF atype = "Monitor" THEN FALSE ELSE TRUE,
                              IF atype = "Monitor" THEN 200 ELSE sa.status,
                              sa.headers, content)),
                  reasons)]

\* SimpleAction::to_decision: the decision and the tags after the call
to_decision(sa, precision_level, mgh, gh_ok, tgs, reason) ==
    LET ntags == tgs \cup (IF IsSome(sa.extra_tags)
                            THEN Unwrap(sa.extra_tags) ELSE {})
        built == build_decision(sa, precision_level, reason)
    IN  [tags |-> ntags,
         errors |-> IF sa.atype /= Skip /\ ~built.ok /\ mgh /\ ~gh_ok
                    THEN <<"grasshopper">> ELSE <<>>,
         decision |->
            IF sa.atype = Skip THEN Decision(None, reason)
            ELSE IF built.ok THEN built.decision
            ELSE IF mgh THEN challenge_phase01(gh_ok, built.reasons)
            ELSE Decision(Some(Action_default), built.reasons)]

(***************************************************************************)
(* Tags of the pipeline: plain and qualified names                         *)
(***************************************************************************)
Tag(t) == <<"", t>>
\* Tags::qualified
Qualified(id, value) == <<id, value>>

(***************************************************************************)
(* Flow checks (flow.rs)                                                   *)
(***************************************************************************)
RECURSIVE SeqFilter(_, _)
\* the elements of seq whose index is in keep, in order
SeqFilter(seq, keep) ==
    IF seq = <<>> THEN <<>>
    ELSE LET rest == SeqFilter(Tail(seq), {i - 1 : i \in keep \ {1}})
         IN  IF 1 \in keep THEN <<Head(seq)>> \o rest ELSE rest

\* flow_match / limit_match on the include and exclude sets
tag_match(tgs, elem) ==
    /\ ~(\E e \in elem.exclude : e \in tgs)
    /\ (elem.include = {} \/ \E e \in elem.include : e \in tgs)

\* flow_match; select_ok is the outcome of check_selector_cond on the request
flow_match(tgs, elem) == tag_match(tgs, elem) /\ elem.select_ok

\* flow_info: one FlowCheck per matching element whose key can be built
flow_info(flows, tgs) ==
    LET keep == {i \in 1..Len(flows) :
                    flow_match(tgs, flows[i]) /\ flows[i].key_ok}
        kept == SeqFilter(flows, keep)
    IN  [i \in 1..Len(kept) |->
            [redis_key |-> kept[i].key, step |-> kept[i].step,
             timeframe |-> kept[i].timeframe, is_last |-> kept[i].is_last,
             id |-> kept[i].id, tags |-> kept[i].tags]]

\* the classification of flow_resolve_query with LastOk and LastBlock swapped
FlowResultType_swapped(check, listlen) ==
    IF check.is_last
    THEN IF check.step = listlen THEN "LastBlock" ELSE "LastOk"
    ELSE "NonLast"

\* the classification of flow_resolve_query (lines 108-135)
FlowResultType(check, listlen) ==
    IF check.is_last
    THEN IF check.step = listlen THEN "LastOk" ELSE "LastBlock"
    ELSE "NonLast"

\* flow_resolve_query: the step advances the list (lines 114-115)
NeedsLpush(check, listlen) == ~check.is_last /\ check.step = listlen

\* `l.unwrap_or(0)` on an LLEN or counter reply
unwrap_or(reply, dflt) == IF IsSome(reply) THEN Unwrap(reply) ELSE dflt

FlowResult(check, tp) ==
    [tp |-> tp, id |-> check.id, tags |-> check.tags]

RECURSIVE flow_process(_, _)
\* flow_process: the tags after the flow results have been applied
flow_process(results, tgs) ==
    IF results = <<>> THEN tgs
    ELSE flow_process(Tail(results),
            IF Head(results).tp = "LastOk"
            THEN tgs \cup {Qualified("fc-id", Head(results).id),
                           Qualified("fc-name", Head(results).id)}
                     \cup Head(results).tags
            ELSE tgs)

(***************************************************************************)
(* Limit checks (limit.rs, config/limit.rs)                                *)
(***************************************************************************)
RECURSIVE SortedInsert(_, _)
\* stable insertion of a threshold in a list sorted by ascending limit
SortedInsert(sorted, thr) ==
    IF sorted = <<>> THEN <<thr>>
    ELSE IF Head(sorted).limit <= thr.limit
         THEN <<Head(sorted)>> \o SortedInsert(Tail(sorted), thr)
         ELSE <<thr>> \o sorted

RECURSIVE SortThresholds(_)
\* `rawlimit.thresholds.sort_by(limit)` (stable)
SortThresholds(raw) ==
    IF raw = <<>> THEN <<>>
    ELSE SortedInsert(SortThresholds(SubSeq(raw, 1, Len(raw) - 1)), raw[Len(raw)])

RECURSIVE KeepByPriority(_, _)
\* the loop of Limit::convert (lines 63-85): a threshold whose
\* rate_limit_priority is below the maximum seen so far is dropped
KeepByPriority(sorted, max_priority) ==
    IF sorted = <<>> THEN <<>>
    ELSE LET p == rate_limit_priority(Head(sorted).action.atype)
         IN  IF p >= max_priority
             THEN <<Head(sorted)>> \o KeepByPriority(Tail(sorted), p)
             ELSE KeepByPriority(Tail(sorted), max_priority)

\* Limit::convert, on the thresholds
Limit_convert_thresholds(raw) == KeepByPriority(SortThresholds(raw), 0)

\* LimitCheck::zero_limits
zero_limits(check) ==
    \A i \in 1..Len(check.limit.thresholds) : check.limit.thresholds[i].limit = 0

\* limit_info: one LimitCheck per matching limit whose key and pairwith
\* value can be selected from the request
limit_info(limits, tgs) ==
    LET keep == {i \in 1..Len(limits) :
                    /\ tag_match(tgs, limits[i])
                    /\ limits[i].key_ok
                    /\ (limits[i].pairwith = None \/ IsSome(limits[i].pair_value))}
        kept == SeqFilter(limits, keep)
    IN  [i \in 1..Len(kept) |->
            [key |-> kept[i].key,
             pairwith |-> IF kept[i].pairwith = None THEN None
                          ELSE kept[i].pair_value,
             limit |-> kept[i]]]

\* limit_pure_react: the decision of one exceeded threshold
limit_pure_react(lim, threshold) ==
    SAction(threshold.action,
            <<BlockReason(lim.id, [kind |-> "Limit", threshold |-> threshold.limit],
                          to_raw(threshold.action.atype))>>)

\* the tags limit_pure_react inserts
limit_react_tags(lim) ==
    {Qualified("limit-id", lim.id), Qualified("limit-name", lim.id)} \cup lim.tags

RECURSIVE limit_thresholds(_, _, _, _)
\* the inner loop of limit_process (lines 168-174)
limit_thresholds(out, lim, curcount, thresholds) ==
    IF thresholds = <<>> THEN out
    ELSE limit_thresholds(
            IF curcount > Head(thresholds).limit
            THEN stronger_decision(out, limit_pure_react(lim, Head(thresholds)))
            ELSE out,
            lim, curcount, Tail(thresholds))

RECURSIVE limit_process(_, _)
\* limit_process: the SimpleDecision of the limit results
limit_process(out, results) ==
    IF results = <<>> THEN out
    ELSE limit_process(
            IF Head(results).curcount > 0
            THEN limit_thresholds(out, Head(results).limit, Head(results).curcount,
                                  Head(results).limit.thresholds)
            ELSE out,
            Tail(results))

\* the tags limit_process inserts: those of every limit with an exceeded
\* threshold
limit_process_tags(results) ==
    UNION {limit_react_tags(results[i].limit) : i \in
             {j \in 1..Len(results) :
                 /\ results[j].curcount > 0
                 /\ \E k \in 1..Len(results[j].limit.thresholds) :
                        results[j].curcount > results[j].limit.thresholds[k].limit}}

(***************************************************************************)
(* The analysis pipeline (analyze.rs)                                      *)
(***************************************************************************)
\* AnalyzeResult; `stage` is the stats stage the result was built at and
\* rinfo_masked records that masking(reqinfo) produced its request-info
AnalyzeResult(dec, tgs, stage) ==
    [decision |-> dec, tags |-> tgs, stage |-> stage, rinfo_masked |-> TRUE]

\* the baseline tags of analyze_init (lines 103-116)
init_tags(secpolicy) ==
    {Qualified("securitypolicy", secpolicy.policy),
     Qualified("securitypolicy-entry", secpolicy.entry),
     Qualified("aclid", secpolicy.acl_profile.id),
     Qualified("aclname", secpolicy.acl_profile.id),
     Qualified("contentfilterid", secpolicy.content_filter_profile.id),
     Qualified("contentfiltername", secpolicy.content_filter_profile.id)}

\* anyhow::Result<T>
Ok(v) == [ok |-> TRUE, value |-> v]
Err(e) == [ok |-> FALSE, error |-> e]

\* eat_errors dropping the error without reporting it
eat_errors_silent(lg, rv) ==
    IF rv.ok THEN [logs |-> lg, value |-> rv.value]
    ELSE [logs |-> lg, value |-> <<>>]

\* eat_errors: the value, or the error logged and Default::default()
eat_errors(lg, rv) ==
    IF rv.ok THEN [logs |-> lg, value |-> rv.value]
    ELSE [logs |-> Append(lg, rv.error), value |-> <<>>]

\* one round trip to the counter store
Trip(phase, cmds, ok) == [phase |-> phase, cmds |-> cmds, ok |-> ok]

\* TTL reply: -1 for a key without expiry, the remaining time otherwise
TtlReply(key, timeframe) == IF redis.has_ttl[key] THEN timeframe ELSE -1

Finish(res) ==
    /\ result' = Some(res)
    /\ tags' = res.tags
    /\ pc' = "done"

\* analyze_init
AnalyzeInit ==
    /\ pc = "init"
    /\ LET secpolicy == conf.secpolicy
           cfp == secpolicy.content_filter_profile
           tags1 == tags \cup init_tags(secpolicy)
           gf == conf.globalfilter_dec
           gf_reasons == IF gf.type = "Action" THEN gf.reasons ELSE <<>>
       IN  \E gh_ok \in BOOLEAN :
           IF conf.uri = "c3650cdf" /\ conf.mgh
           THEN /\ Finish(AnalyzeResult(challenge_phase01(gh_ok, <<>>), tags1, "mapped"))
                /\ logs' = IF gh_ok THEN logs ELSE Append(logs, "grasshopper")
                /\ UNCHANGED <<p0_decision, flow>>
           ELSE IF cfp.content_type_set /\ conf.body_decoding /= "ok"
           THEN LET reason == BlockReason(cfp.id,
                                  [kind |-> "Restriction", tp |-> conf.body_decoding],
                                  to_raw(cfp.action.atype))
                    td == to_decision(cfp.action, conf.precision_level, conf.mgh,
                                      gh_ok, tags1, <<reason>>)
                IN  /\ Finish(AnalyzeResult(td.decision, td.tags \cup cfp.tags, "mapped"))
                    /\ logs' = logs \o td.errors
                    /\ UNCHANGED <<p0_decision, flow>>
           ELSE IF conf.uri \in {"7060ac19", "74d8", "8d47"} /\ conf.mgh /\ gh_ok
           THEN /\ Finish(AnalyzeResult(
                       Decision(Some(Action("Block", TRUE, 248, Some("gh" :> "hdr"), "{}")),
                                gf_reasons),
                       tags1, "mapped"))
                /\ UNCHANGED <<p0_decision, flow, logs>>
           ELSE LET gh_failed == conf.uri \in {"7060ac19", "74d8", "8d47"} /\ conf.mgh
                    logs1 == IF gh_failed THEN Append(logs, "grasshopper") ELSE logs
                    td == IF gf.type = "Action"
                          THEN to_decision(gf.action, conf.precision_level, conf.mgh,
                                           gh_ok, tags1, gf.reasons)
                          ELSE [decision |-> Decision_pass(<<>>), tags |-> tags1,
                                errors |-> <<>>]
                IN  IF gf.type = "Action" /\ is_final(td.decision)
                    THEN /\ Finish(AnalyzeResult(td.decision, td.tags, "mapped"))
                         /\ logs' = logs1 \o td.errors
                         /\ UNCHANGED <<p0_decision, flow>>
                    ELSE /\ p0_decision' = td.decision
                         /\ tags' = td.tags
                         /\ flow' = [flow EXCEPT !.checks = flow_info(conf.flows, td.tags)]
                         /\ logs' = logs1 \o td.errors
                         /\ pc' = "query_flows"
                         /\ UNCHANGED result
    /\ UNCHANGED <<conf, limit, redis, trips, evaluated, faults, nonPipeVars>>

\* analyze_query_flows up to the LLEN batch (lines 291-320)
QueryFlows ==
    /\ pc = "query_flows"
    /\ IF flow.checks = <<>>
       THEN /\ flow' = [flow EXCEPT !.results = <<>>]
            /\ pc' = "analyze_flows"
            /\ UNCHANGED <<trips, logs, faults>>
       ELSE \E conn_ok \in BOOLEAN, query_ok \in BOOLEAN, nil_reply \in BOOLEAN :
            IF ~conn_ok
            THEN /\ logs' = Append(logs, "redis-connect")
                 /\ faults' = Append(faults, <<"flow", "connect">>)
                 /\ flow' = [flow EXCEPT !.results = <<>>]
                 /\ pc' = "analyze_flows"
                 /\ UNCHANGED trips
            ELSE LET cmds == [i \in 1..Len(flow.checks) |->
                                 <<"LLEN", flow.checks[i].redis_key>>]
                     replies == [i \in 1..Len(flow.checks) |->
                                 LET n == redis.lists[flow.checks[i].redis_key]
                                 IN  IF n = 0 /\ nil_reply THEN None ELSE Some(n)]
                 IN  /\ trips' = Append(trips, Trip("flow", cmds, query_ok))
                     /\ IF query_ok
                        THEN /\ flow' = [flow EXCEPT !.iter = replies, !.out = <<>>,
                                                     !.todo = flow.checks]
                             /\ pc' = "flow_resolve"
                             /\ UNCHANGED <<logs, faults>>
                        ELSE /\ logs' = Append(logs, "redis-query")
                             /\ faults' = Append(faults, <<"flow", "query">>)
                             /\ flow' = [flow EXCEPT !.results = <<>>]
                             /\ pc' = "analyze_flows"
    /\ UNCHANGED <<conf, tags, p0_decision, limit, redis, evaluated, result,
                   nonPipeVars>>

\* flow_resolve_query: one iteration of its loop, and its return
FlowResolveStep ==
    /\ pc = "flow_resolve"
    /\ flow.todo /= <<>>
    /\ LET check == Head(flow.todo)
           key == check.redis_key
           fail == /\ flow' = [flow EXCEPT !.results =
                                    eat_errors(logs, Err("redis-resolve")).value]
                   /\ logs' = eat_errors(logs, Err("redis-resolve")).logs
                   /\ faults' = Append(faults, <<"flow", "resolve">>)
                   /\ pc' = "analyze_flows"
           next(out) ==
               /\ UNCHANGED <<logs, faults>>
               /\ IF Tail(flow.todo) = <<>>
                  THEN /\ flow' = [flow EXCEPT !.results = eat_errors(logs, Ok(out)).value,
                                               !.out = out, !.todo = <<>>,
                                               !.iter = Tail(flow.iter)]
                       /\ pc' = "analyze_flows"
                  ELSE /\ flow' = [flow EXCEPT !.out = out, !.todo = Tail(flow.todo),
                                               !.iter = Tail(flow.iter)]
                       /\ pc' = "flow_resolve"
       IN  IF flow.iter = <<>>
           THEN fail /\ UNCHANGED <<redis, trips>>
           ELSE LET listlen == unwrap_or(Head(flow.iter), 0)
                    out == Append(flow.out,
                                  FlowResult(check, FlowResultType(check, listlen)))
                    push == Trip("flow", <<<<"LPUSH", key>>, <<"TTL", key>>>>, TRUE)
                    expire == Trip("flow", <<<<"EXPIRE", key>>>>, TRUE)
                IN  IF ~NeedsLpush(check, listlen)
                    THEN next(out) /\ UNCHANGED <<redis, trips>>
                    ELSE \E push_ok \in BOOLEAN, expire_ok \in BOOLEAN :
                         IF ~push_ok
                         THEN /\ fail
                              /\ trips' = Append(trips, [push EXCEPT !.ok = FALSE])
                              /\ UNCHANGED redis
                         ELSE IF TtlReply(key, check.timeframe) >= 0
                         THEN /\ next(out)
                              /\ trips' = Append(trips, push)
                              /\ redis' = [redis EXCEPT !.lists[key] = @ + 1]
                         ELSE IF ~expire_ok
                         THEN /\ fail
                              /\ trips' = trips \o <<push, [expire EXCEPT !.ok = FALSE]>>
                              /\ redis' = [redis EXCEPT !.lists[key] = @ + 1]
                         ELSE /\ next(out)
                              /\ trips' = trips \o <<push, expire>>
                              /\ redis' = [redis EXCEPT !.lists[key] = @ + 1,
                                                        !.has_ttl[key] = TRUE]
    /\ UNCHANGED <<conf, tags, p0_decision, limit, evaluated, result,
                   nonPipeVars>>

\* analyze_flows
AnalyzeFlows ==
    /\ pc = "analyze_flows"
    /\ tags' = flow_process(flow.results, tags)
    /\ limit' = [limit EXCEPT !.checks =
                    limit_info(conf.secpolicy.limits, flow_process(flow.results, tags))]
    /\ pc' = "query_limits"
    /\ UNCHANGED <<conf, p0_decision, flow, redis, trips, logs, evaluated, faults,
                   result, nonPipeVars>>

RECURSIVE limit_build_query_unguarded(_)
\* limit_build_query without the zero_limits test
limit_build_query_unguarded(checks) ==
    IF checks = <<>> THEN <<>>
    ELSE LET check == Head(checks)
             key == check.key
         IN  (IF check.pairwith = None
              THEN <<<<"INCR", key>>, <<"TTL", key>>>>
              ELSE <<<<"SADD", key>>, <<"SCARD", key>>, <<"TTL", key>>>>)
             \o limit_build_query_unguarded(Tail(checks))

RECURSIVE limit_build_query(_)
\* limit_build_query: the commands of the batch
limit_build_query(checks) ==
    IF checks = <<>> THEN <<>>
    ELSE LET check == Head(checks)
             key == check.key
         IN  (IF zero_limits(check) THEN <<>>
              ELSE IF check.pairwith = None
              THEN <<<<"INCR", key>>, <<"TTL", key>>>>
              ELSE <<<<"SADD", key>>, <<"SCARD", key>>, <<"TTL", key>>>>)
             \o limit_build_query(Tail(checks))

RECURSIVE LimitBatch(_, _)
\* the counter store executing the batch of limit_build_query: its state
\* afterwards and its replies (the reply of SADD is ignored)
LimitBatch(checks, store) ==
    IF checks = <<>> THEN [store |-> store, replies |-> <<>>]
    ELSE LET check == Head(checks)
             key == check.key
             ttl == Some(IF store.has_ttl[key] THEN check.limit.timeframe ELSE -1)
         IN  IF zero_limits(check) THEN LimitBatch(Tail(checks), store)
             ELSE LET store1 ==
                          IF check.pairwith = None
                          THEN [store EXCEPT !.counts[key] = @ + 1]
                          ELSE [store EXCEPT !.sets[key] = @ \cup {Unwrap(check.pairwith)}]
                      count == IF check.pairwith = None THEN store1.counts[key]
                               ELSE Cardinality(store1.sets[key])
                      rest == LimitBatch(Tail(checks), store1)
                  IN  [store |-> rest.store,
                       replies |-> <<Some(count), ttl>> \o rest.replies]

\* analyze_query_limits up to the batch (lines 343-374); an empty pipeline
\* is answered by the client library without a round trip
QueryLimits ==
    /\ pc = "query_limits"
    /\ IF limit.checks = <<>>
       THEN /\ limit' = [limit EXCEPT !.results = <<>>]
            /\ pc' = "finish"
            /\ UNCHANGED <<trips, logs, redis, faults>>
       ELSE \E conn_ok \in BOOLEAN, query_ok \in BOOLEAN :
            IF ~conn_ok
            THEN /\ logs' = Append(logs, "redis-connect")
                 /\ faults' = Append(faults, <<"limit", "connect">>)
                 /\ limit' = [limit EXCEPT !.results = <<>>]
                 /\ pc' = "finish"
                 /\ UNCHANGED <<trips, redis>>
            ELSE LET cmds == limit_build_query(limit.checks)
                     batch == LimitBatch(limit.checks, redis)
                 IN  IF cmds /= <<>> /\ ~query_ok
                     THEN /\ trips' = Append(trips, Trip("limit", cmds, FALSE))
                          /\ logs' = Append(logs, "redis-query")
                          /\ faults' = Append(faults, <<"limit", "query">>)
                          /\ limit' = [limit EXCEPT !.results = <<>>]
                          /\ pc' = "finish"
                          /\ UNCHANGED redis
                     ELSE /\ trips' = IF cmds = <<>> THEN trips
                                      ELSE Append(trips, Trip("limit", cmds, TRUE))
                          /\ redis' = batch.store
                          /\ limit' = [limit EXCEPT !.iter = batch.replies, !.out = <<>>,
                                                    !.todo = limit.checks, !.pipe = <<>>]
                          /\ pc' = "limit_resolve"
                          /\ UNCHANGED <<logs, faults>>
    /\ UNCHANGED <<conf, tags, p0_decision, flow, evaluated, result,
                   nonPipeVars>>

\* limit_resolve_query: one iteration of its loop, and its return
LimitResolveStep ==
    /\ pc = "limit_resolve"
    /\ limit.todo /= <<>>
    /\ LET check == Head(limit.todo)
           zero == zero_limits(check)
           fail == /\ limit' = [limit EXCEPT !.results =
                                      eat_errors(logs, Err("redis-resolve")).value]
                   /\ logs' = eat_errors(logs, Err("redis-resolve")).logs
                   /\ faults' = Append(faults, <<"limit", "resolve">>)
                   /\ pc' = "finish"
       IN  IF ~zero /\ Len(limit.iter) < 2
           THEN fail /\ UNCHANGED <<redis, trips>>
           ELSE LET curcount == IF zero THEN 1 ELSE unwrap_or(limit.iter[1], 0)
                    expire == IF zero THEN 0 ELSE unwrap_or(limit.iter[2], -1)
                    iter == IF zero THEN limit.iter ELSE Tail(Tail(limit.iter))
                    pipe == IF expire < 0
                            THEN Append(limit.pipe, <<"EXPIRE", check.key>>)
                            ELSE limit.pipe
                    out == Append(limit.out, [limit |-> check.limit, curcount |-> curcount])
                    next ==
                        /\ UNCHANGED <<logs, faults>>
                        /\ IF Tail(limit.todo) = <<>>
                           THEN /\ limit' = [limit EXCEPT
                                        !.results = eat_errors(logs, Ok(out)).value,
                                        !.out = out, !.todo = <<>>, !.iter = iter,
                                        !.pipe = pipe]
                                /\ pc' = "finish"
                           ELSE /\ limit' = [limit EXCEPT !.out = out, !.iter = iter,
                                        !.todo = Tail(limit.todo), !.pipe = pipe]
                                /\ pc' = "limit_resolve"
                IN  IF pipe = <<>>
                    THEN next /\ UNCHANGED <<redis, trips>>
                    ELSE \E query_ok \in BOOLEAN :
                         /\ trips' = Append(trips, Trip("limit", pipe, query_ok))
                         /\ IF query_ok
                            THEN /\ next
                                 /\ redis' = [redis EXCEPT !.has_ttl =
                                        [k \in DOMAIN redis.has_ttl |->
                                            \/ redis.has_ttl[k]
                                            \/ \E i \in 1..Len(pipe) : pipe[i][2] = k]]
                            ELSE fail /\ UNCHANGED redis
    /\ UNCHANGED <<conf, tags, p0_decision, flow, evaluated, result,
                   nonPipeVars>>

\* BlockReason::acl: the action recorded for a stage
acl_reason_action(stage) ==
    CASE stage \in {"Allow", "Bypass", "AllowBot"} -> "Monitor"
      [] stage \in {"Deny", "EnforceDeny"} -> "Custom"
      [] stage = "DenyBot" -> "Challenge"

\* the content-filter part of analyze_finish (lines 500-565); conf.cf_result
\* is the outcome of content_filter_check
finish_content_filter(cumulated, tgs, gh_ok) ==
    LET secpol == conf.secpolicy
        cfp == secpol.content_filter_profile
        cfr == conf.cf_result
        br == IF secpol.content_filter_active THEN cfr.reasons
              ELSE Inactive(cfr.reasons)
        td == to_decision(cfp.action, conf.precision_level, conf.mgh, gh_ok,
                          tgs \cup cfp.tags, br)
        dec == IF IsSome(td.decision.maction)
               THEN [td.decision EXCEPT !.maction = Some(
                        [Unwrap(td.decision.maction) EXCEPT !.block_mode =
                            @ /\ secpol.content_filter_active])]
               ELSE td.decision
    IN  IF cfr.ok THEN [res |-> AnalyzeResult(
                            merge_decisions(cumulated, Decision_pass(<<>>)), tgs, "cf"),
                        errors |-> <<>>]
        ELSE IF cfr.blocking
        THEN [res |-> AnalyzeResult(merge_decisions(cumulated, dec), td.tags, "cf"),
              errors |-> td.errors]
        ELSE [res |-> AnalyzeResult(merge_decisions(cumulated, Decision_pass(br)),
                                    tgs \cup cfp.tags, "cf"),
              errors |-> <<>>]

\* the ACL part of analyze_finish with the block reason left as the ACL
\* stage gives it, whatever acl_active says
finish_acl_always_active(cumulated, tgs, gh_ok) ==
    LET secpol == conf.secpolicy
        aclp == secpol.acl_profile
        acl_dec == decision(check_acl(tgs, aclp),
                            PrecisionLevel_is_human(conf.precision_level))
    IN  IF acl_dec = None THEN [done |-> FALSE, cumulated |-> cumulated, tags |-> tgs]
        ELSE
        LET dec == Unwrap(acl_dec)
            bypass == dec.stage = "Bypass"
            br == BlockReason(aclp.id,
                    [kind |-> "Acl", tags |-> dec.tags, stage |-> dec.stage],
                    acl_reason_action(dec.stage))
            fin == RawActionType_is_final(br.action)
            cum1 == merge_decisions(cumulated, Decision_pass(<<br>>))
            tags1 == tgs \cup aclp.tags
            block == to_decision(aclp.action, conf.precision_level, conf.mgh,
                                 gh_ok, tags1, <<>>)
        IN  IF secpol.acl_active /\ bypass
            THEN [done |-> TRUE, res |-> AnalyzeResult(cum1, tags1, "acl"),
                  errors |-> <<>>]
            ELSE IF dec.challenge /\ conf.mgh
            THEN [done |-> TRUE,
                  res |-> AnalyzeResult(
                      merge_decisions(cum1, challenge_phase01(gh_ok, <<>>)), tags1, "acl"),
                  errors |-> IF gh_ok THEN <<>> ELSE <<"grasshopper">>]
            ELSE IF dec.challenge \/ fin
            THEN [done |-> TRUE,
                  res |-> AnalyzeResult(merge_decisions(cum1, block.decision),
                                        block.tags, "acl"),
                  errors |-> block.errors]
            ELSE [done |-> FALSE, cumulated |-> cum1, tags |-> tags1]

\* the ACL part of analyze_finish (lines 418-498): [done, res, errors] when
\* the request ends there, [done = FALSE, cumulated, tags] otherwise
finish_acl(cumulated, tgs, gh_ok) ==
    LET secpol == conf.secpolicy
        aclp == secpol.acl_profile
        acl_dec == decision(check_acl(tgs, aclp),
                            PrecisionLevel_is_human(conf.precision_level))
    IN  IF acl_dec = None THEN [done |-> FALSE, cumulated |-> cumulated, tags |-> tgs]
        ELSE
        LET dec == Unwrap(acl_dec)
            bypass == dec.stage = "Bypass"
            br == BlockReason(aclp.id,
                    [kind |-> "Acl", tags |-> dec.tags, stage |-> dec.stage],
                    IF ~secpol.acl_active /\ ~dec.challenge THEN "Monitor"
                    ELSE acl_reason_action(dec.stage))
            fin == RawActionType_is_final(br.action)
            cum1 == merge_decisions(cumulated, Decision_pass(<<br>>))
            tags1 == tgs \cup aclp.tags
            block == to_decision(aclp.action, conf.precision_level, conf.mgh,
                                 gh_ok, tags1, <<>>)
        IN  IF secpol.acl_active /\ bypass
            THEN [done |-> TRUE, res |-> AnalyzeResult(cum1, tags1, "acl"),
                  errors |-> <<>>]
            ELSE IF dec.challenge /\ conf.mgh
            THEN [done |-> TRUE,
                  res |-> AnalyzeResult(
                      merge_decisions(cum1, challenge_phase01(gh_ok, <<>>)), tags1, "acl"),
                  errors |-> IF gh_ok THEN <<>> ELSE <<"grasshopper">>]
            ELSE IF dec.challenge \/ fin
            THEN [done |-> TRUE,
                  res |-> AnalyzeResult(merge_decisions(cum1, block.decision),
                                        block.tags, "acl"),
                  errors |-> block.errors]
            ELSE [done |-> FALSE, cumulated |-> cum1, tags |-> tags1]

\* analyze_finish
AnalyzeFinish ==
    /\ pc = "finish"
    /\ \E gh_ok \in BOOLEAN :
       LET limit_check == limit_process(Pass, limit.results)
           tags1 == tags \cup limit_process_tags(limit.results)
           td == IF limit_check.type = "Action"
                 THEN to_decision(limit_check.action, conf.precision_level, conf.mgh,
                                  gh_ok, tags1, limit_check.reasons)
                 ELSE [decision |-> Decision_pass(<<>>), tags |-> tags1, errors |-> <<>>]
           cum1 == IF limit_check.type = "Action"
                   THEN merge_decisions(p0_decision, td.decision)
                   ELSE p0_decision
       IN  IF limit_check.type = "Action" /\ is_final(cum1)
           THEN /\ Finish(AnalyzeResult(cum1, td.tags, "limit"))
                /\ logs' = logs \o td.errors
                /\ UNCHANGED evaluated
           ELSE LET acl == finish_acl(cum1, td.tags, gh_ok)
                IN  IF acl.done
                    THEN /\ Finish(acl.res)
                         /\ logs' = logs \o td.errors \o acl.errors
                         /\ evaluated' = evaluated \cup {"acl"}
                    ELSE LET cf == finish_content_filter(acl.cumulated, acl.tags, gh_ok)
                         IN  /\ Finish(cf.res)
                             /\ logs' = logs \o td.errors \o cf.errors
                             /\ evaluated' = evaluated \cup {"acl", "cf"}
    /\ UNCHANGED <<conf, p0_decision, flow, limit, redis, trips, faults,
                   nonPipeVars>>

(***************************************************************************)
(* Requests and configurations the pipeline is run on                      *)
(***************************************************************************)
FlowKeys == {"fk1", "fk2"}
LimitKeys == {"lk1", "lk2"}

ActSkip == SimpleAction(Skip, None, 503, None)
ActMonitor(h) == SimpleAction(Monitor, Some("h" :> h), 200, None)
ActCustom == SimpleAction(Custom("blocked"), None, 503, Some({Tag("blocked")}))
ActChallenge == SimpleAction(Challenge("Active"), None, 503, None)

\* tag_request (tagging.rs 298-320): the global-filter decision is the
\* stronger_decision fold of the actions of the matching sections; a Monitor
\* action takes part only when it carries headers
GfSection(id, action) ==
    SAction(action, <<BlockReason(id, [kind |-> "GlobalFilter"], to_raw(action.atype))>>)
GlobalFilterDecisions ==
    {Pass} \cup {GfSection("gf1", a) :
                    a \in {ActSkip, ActMonitor("v1"), ActCustom, ActChallenge}}
        \cup {stronger_decision(GfSection("gf1", ActMonitor("v1")), GfSection("gf2", a)) :
                    a \in {ActMonitor("v2"), ActCustom}}

FlowElement(id, step, is_last, key, select_ok, key_ok) ==
    [id |-> id, step |-> step, is_last |-> is_last, timeframe |-> 10,
     include |-> {}, exclude |-> {Tag("noflow")}, select_ok |-> select_ok,
     key_ok |-> key_ok, key |-> key, tags |-> {Tag("flow-ok")}]

\* the elements of the flow sequences the request's sequence key maps to
FlowElements ==
    {FlowElement("f", step, is_last, key, TRUE, TRUE) :
        step \in 0..MaxListLen, is_last \in BOOLEAN, key \in FlowKeys}
    \cup {FlowElement("f", 0, FALSE, "fk1", FALSE, TRUE),
          FlowElement("f", 0, FALSE, "fk1", TRUE, FALSE)}

FlowLists == {<<e>> : e \in FlowElements}
                 \cup {<<e1, e2>> : e1 \in FlowElements, e2 \in FlowElements}

Limit(id, key, raw_thresholds, pairwith, pair_value) ==
    [id |-> id, timeframe |-> 10,
     thresholds |-> Limit_convert_thresholds(raw_thresholds),
     include |-> {}, exclude |-> {Tag("nolimit")},
     pairwith |-> pairwith, pair_value |-> pair_value,
     key_ok |-> TRUE, key |-> key, tags |-> {Tag("limited")}]

LimitActions == {ActSkip, ActMonitor("v1"), ActMonitor("v2"), ActCustom, ActChallenge}
RawThresholds == [limit : 0..MaxCount, action : LimitActions]
RawThresholdLists == SeqsUpTo(RawThresholds, MaxThresholds)

AclProfile(action) ==
    [id |-> "acl1", force_deny |-> {Tag("fd")}, passthrough |-> {Tag("pt")},
     allow_bot |-> {Tag("ab")}, deny_bot |-> {Tag("db")}, allow |-> {Tag("al")},
     deny |-> {Tag("dn")}, action |-> action, tags |-> {Tag("acl-hit")}]

ContentFilterProfile(action) ==
    [id |-> "cf1", action |-> action, tags |-> {Tag("cf-hit")},
     content_type_set |-> TRUE]

\* outcomes of content_filter_check: Ok(()), or Err(CfBlock)
CfOk == [ok |-> TRUE]
CfBlock(blocking, reasons) == [ok |-> FALSE, blocking |-> blocking, reasons |-> reasons]
CfResults ==
    {CfOk,
     CfBlock(TRUE, <<BlockReason("cf1", [kind |-> "ContentFilter"], "Custom")>>),
     CfBlock(FALSE, <<BlockReason("cf1", [kind |-> "ContentFilter"], "Monitor")>>)}

SecurityPolicy(limits, acl_active, cf_active) ==
    [policy |-> "pol", entry |-> "entry", acl_active |-> acl_active,
     acl_profile |-> AclProfile(ActCustom),
     content_filter_active |-> cf_active,
     content_filter_profile |-> ContentFilterProfile(ActCustom),
     limits |-> limits]

\* APhase0 plus what the request's handlers consult
Conf(gf, pl, mgh, uri, body, flows, secpolicy, cf_result, itags) ==
    [globalfilter_dec |-> gf, precision_level |-> pl, mgh |-> mgh, uri |-> uri,
     body_decoding |-> body, flows |-> flows, secpolicy |-> secpolicy,
     cf_result |-> cf_result, itags |-> itags]

\* counter-store states: a key without elements has no expiry
RedisState(lists, counts, sets) ==
    [lists |-> lists, counts |-> counts, sets |-> sets,
     has_ttl |-> [k \in FlowKeys \cup LimitKeys |->
                     IF k \in FlowKeys THEN lists[k] > 0
                     ELSE counts[k] > 0 \/ sets[k] /= {}]]
NoLists == [k \in FlowKeys |-> 0]
NoCounts == [k \in LimitKeys |-> 0]
NoSets == [k \in LimitKeys |-> {}]

\* requests that exercise the flow checks
FlowScenarios ==
    {[conf |-> Conf(Pass, "Invalid", FALSE, "normal", "ok", fl,
                    SecurityPolicy(<<>>, TRUE, TRUE), CfOk, {}),
      redis |-> RedisState(ls, NoCounts, NoSets)] :
        fl \in FlowLists, ls \in [FlowKeys -> 0..MaxListLen]}

ZeroLimit == Limit("l2", "lk2", <<[limit |-> 0, action |-> ActCustom]>>, None, None)

\* requests that exercise the thresholds of one limit
ThresholdScenarios ==
    {[conf |-> Conf(Pass, "Invalid", FALSE, "normal", "ok", <<>>,
                    SecurityPolicy(<<Limit("l1", "lk1", raw, None, None)>>, TRUE, TRUE),
                    CfOk, {}),
      redis |-> RedisState(NoLists, [NoCounts EXCEPT !["lk1"] = c], NoSets)] :
        raw \in RawThresholdLists, c \in 0..MaxCount}

\* requests that exercise the counters of the limit checks
LimitScenarios ==
    {[conf |-> Conf(Pass, hm[1], hm[2], "normal", "ok", <<>>,
                    SecurityPolicy(first \o <<Limit("l1", "lk1", raw, pw[1], pw[2])>>
                                       \o second,
                                   TRUE, TRUE),
                    CfOk, {}),
      redis |-> RedisState(NoLists, [NoCounts EXCEPT !["lk1"] = c],
                           [NoSets EXCEPT !["lk1"] = ps])] :
        raw \in {<<[limit |-> 0, action |-> ActMonitor("v1")]>>,
                 <<[limit |-> 1, action |-> ActChallenge]>>,
                 <<[limit |-> 1, action |-> ActMonitor("v1")],
                   [limit |-> 2, action |-> ActCustom]>>},
        pw \in {<<None, None>>, <<Some("sel"), None>>, <<Some("sel"), Some("p1")>>},
        hm \in {<<"Invalid", FALSE>>, <<"Active", TRUE>>},
        first \in {<<>>, <<ZeroLimit>>},
        second \in {<<>>, <<ZeroLimit>>},
        c \in 0..MaxCount, ps \in {{}, {"p2"}}}

PipelineFlows ==
    <<FlowElement("f", 0, FALSE, "fk1", TRUE, TRUE),
      FlowElement("f", 1, TRUE, "fk2", TRUE, TRUE)>>
PipelineLimits ==
    <<Limit("l1", "lk1", <<[limit |-> 1, action |-> ActMonitor("v1")],
                           [limit |-> 2, action |-> ActCustom]>>, None, None)>>
PipelineRedis ==
    RedisState([NoLists EXCEPT !["fk1"] = 1], [NoCounts EXCEPT !["lk1"] = 1], NoSets)

\* requests that exercise the first phase and the hand-over to the later ones
InitScenarios ==
    {[conf |-> Conf(gf, hm[1], hm[2], ub[1], ub[2], fl,
                    SecurityPolicy(lm, TRUE, TRUE), CfOk, {}),
      redis |-> PipelineRedis] :
        gf \in GlobalFilterDecisions,
        hm \in {<<"Invalid", FALSE>>, <<"Invalid", TRUE>>, <<"Active", TRUE>>},
        ub \in {<<"normal", "ok">>, <<"c3650cdf", "ok">>, <<"7060ac19", "ok">>,
                <<"normal", "TooDeep">>},
        fl \in {<<>>, PipelineFlows},
        lm \in {<<>>, PipelineLimits}}

\* requests that exercise the last phase
FinishScenarios ==
    {[conf |-> Conf(gf, hm[1], hm[2], "normal", "ok", <<>>,
                    SecurityPolicy(lm, active[1], active[2]), cf, it),
      redis |-> [PipelineRedis EXCEPT !.counts["lk1"] = c]] :
        c \in {1, 2},
        gf \in {Pass, GfSection("gf1", ActMonitor("v1"))},
        hm \in {<<"Invalid", FALSE>>, <<"Invalid", TRUE>>, <<"Active", TRUE>>},
        lm \in {<<>>, PipelineLimits},
        active \in {<<TRUE, TRUE>>, <<FALSE, TRUE>>, <<TRUE, FALSE>>},
        cf \in CfResults,
        it \in {{}, {Tag("fd")}, {Tag("pt")}, {Tag("db")}, {Tag("dn")}, {Tag("al")}}}

Scenarios ==
    FlowScenarios \cup ThresholdScenarios \cup LimitScenarios
        \cup InitScenarios \cup FinishScenarios

PipeIdle ==
    /\ pc = "off"
    /\ conf = <<>>
    /\ tags = {}
    /\ p0_decision = Decision_pass(<<>>)
    /\ flow = <<>>
    /\ limit = <<>>
    /\ redis = <<>>
    /\ trips = <<>>
    /\ logs = <<>>
    /\ evaluated = {}
    /\ faults = <<>>
    /\ result = None

PipeInit ==
    /\ pc = "init"
    /\ \E sc \in Scenarios : conf = sc.conf /\ redis = sc.redis
    /\ tags = conf.itags
    /\ p0_decision = Decision_pass(<<>>)
    /\ flow = [checks |-> <<>>, iter |-> <<>>, todo |-> <<>>, out |-> <<>>,
               results |-> <<>>]
    /\ limit = [checks |-> <<>>, iter |-> <<>>, todo |-> <<>>, out |-> <<>>,
                pipe |-> <<>>, results |-> <<>>]
    /\ trips = <<>>
    /\ logs = <<>>
    /\ evaluated = {}
    /\ faults = <<>>
    /\ result = None

(***************************************************************************)
(* Specifications                                                          *)
(***************************************************************************)
InitAcl ==
    /\ AclInit
    /\ ReloadIdle
    /\ MergeIdle
    /\ PipeIdle
    /\ EntryIdle
    /\ StrongerIdle
    /\ FilterIdle
    /\ FieldIdle
    /\ SectionIdle
    /\ TagsIdle
    /\ FlowIdle
    /\ MaskIdle
    /\ CreloadIdle
    /\ StreamIdle

NextAcl == CheckAcl /\ UNCHANGED nonAclVars

SpecAcl == InitAcl /\ [][NextAcl]_vars

InitMerge ==
    /\ MergeInit
    /\ ReloadIdle
    /\ AclIdle
    /\ PipeIdle
    /\ EntryIdle
    /\ StrongerIdle
    /\ FilterIdle
    /\ FieldIdle
    /\ SectionIdle
    /\ TagsIdle
    /\ FlowIdle
    /\ MaskIdle
    /\ CreloadIdle
    /\ StreamIdle

NextMerge == MergeDecisions /\ UNCHANGED nonMergeVars

SpecMerge == InitMerge /\ [][NextMerge]_vars

Init ==
    /\ PipeInit
    /\ ReloadIdle
    /\ AclIdle
    /\ MergeIdle
    /\ EntryIdle
    /\ StrongerIdle
    /\ FilterIdle
    /\ FieldIdle
    /\ SectionIdle
    /\ TagsIdle
    /\ FlowIdle
    /\ MaskIdle
    /\ CreloadIdle
    /\ StreamIdle

Next ==
    \/ AnalyzeInit
    \/ QueryFlows
    \/ FlowResolveStep
    \/ AnalyzeFlows
    \/ QueryLimits
    \/ LimitResolveStep
    \/ AnalyzeFinish

Spec == Init /\ [][Next]_vars

(***************************************************************************)
(* Properties: ACL decision logic                                          *)
(***************************************************************************)
AclDone == IsSome(acl_result) /\ IsSome(acl_decision)
AclMatch == AclDone /\ Unwrap(acl_result).type = "Match"
BotVerdict == Unwrap(acl_result).bot
HumanVerdict == Unwrap(acl_result).human
AclStageIs(stage) ==
    IsSome(Unwrap(acl_decision)) /\ Unwrap(Unwrap(acl_decision)).stage = stage

\* C1: when the request's tags intersect force_deny, check_acl followed by
\* AclResult::decision yields stage EnforceDeny, whatever the other five tag
\* sets match and whether or not the requester is human.
C1_ForceDenyEnforced ==
    (AclDone /\ acl_tags \cap acl_profile.force_deny /= {})
        => AclStageIs("EnforceDeny")

\* a force_deny hit on a request whose tags also hit passthrough and allow,
\* for a verified human
C1_Witness ==
    /\ AclDone
    /\ acl_tags \cap acl_profile.force_deny /= {}
    /\ acl_tags \cap acl_profile.passthrough /= {}
    /\ acl_tags \cap acl_profile.allow /= {}
    /\ acl_is_human
    /\ AclStageIs("EnforceDeny")

\* C2 as stated: a bot verdict of allow yields AllowBot whatever the human
\* verdict is.
C2_Original_AllowBotAlways ==
    (AclMatch /\ IsSome(BotVerdict) /\ Unwrap(BotVerdict).allowed)
        => AclStageIs("AllowBot")

\* C2 amended: a bot verdict of allow yields AllowBot when the human verdict
\* is absent or allow, and Deny (without challenge, carrying the human tags)
\* when the human verdict is deny; in both cases whether or not the requester
\* is human.
C2_AllowBotUnlessHumanDeny ==
    (AclMatch /\ IsSome(BotVerdict) /\ Unwrap(BotVerdict).allowed)
        => IF IsSome(HumanVerdict) /\ ~Unwrap(HumanVerdict).allowed
           THEN /\ AclStageIs("Deny")
                /\ ~Unwrap(Unwrap(acl_decision)).challenge
                /\ Unwrap(Unwrap(acl_decision)).tags = Unwrap(HumanVerdict).tags
           ELSE AclStageIs("AllowBot")

\* bot verdict allow together with human verdict deny has been resolved
C2_Witness ==
    /\ AclMatch
    /\ IsSome(BotVerdict) /\ Unwrap(BotVerdict).allowed
    /\ IsSome(HumanVerdict) /\ ~Unwrap(HumanVerdict).allowed
    /\ AclStageIs("Deny")

\* C3: for a requester that is not human and a bot verdict of deny, the stage
\* is DenyBot, with challenge = TRUE when the human verdict is allow or
\* absent and challenge = FALSE when the human verdict is deny.
C3_DenyBotChallenge ==
    (AclMatch /\ ~acl_is_human /\ IsSome(BotVerdict) /\ ~Unwrap(BotVerdict).allowed)
        => /\ AclStageIs("DenyBot")
           /\ Unwrap(Unwrap(acl_decision)).challenge
                  = ~(IsSome(HumanVerdict) /\ ~Unwrap(HumanVerdict).allowed)

\* bot deny and human deny for a non-human requester: DenyBot, no challenge
C3_Witness ==
    /\ AclMatch /\ ~acl_is_human
    /\ IsSome(BotVerdict) /\ ~Unwrap(BotVerdict).allowed
    /\ IsSome(HumanVerdict) /\ ~Unwrap(HumanVerdict).allowed
    /\ AclStageIs("DenyBot")
    /\ ~Unwrap(Unwrap(acl_decision)).challenge

(***************************************************************************)
(* Properties: decision merging                                            *)
(***************************************************************************)
\* the priority order of the claim: Skip > Block > Monitor > no action
ClaimedPriority(maction) ==
    IF maction = None THEN 0
    ELSE CASE Unwrap(maction).atype = "Skip" -> 9
           [] Unwrap(maction).atype = "Block" -> 6
           [] Unwrap(maction).atype = "Monitor" -> 1

HasBlockAction(d) == IsSome(d.maction) /\ Unwrap(d.maction).atype = "Block"

\* C5 as stated: is_final is true exactly when the decision has a block
\* action or a block reason that is neither Monitor nor Skip.
C5_Original_FinalIffBlocking ==
    IsSome(finals) =>
        Unwrap(finals).d1 =
            (HasBlockAction(d1)
             \/ \E i \in 1..Len(d1.reasons) :
                    d1.reasons[i].action \notin {"Monitor", "Skip"})

\* C5 amended: is_final is true exactly when the decision has an action whose
\* type is not Monitor (Block or Skip) or at least one block reason whose
\* action type is not Monitor (Skip included); a decision whose action, if
\* any, is Monitor and whose reasons are all Monitor is not final.
C5_FinalIffNotMonitor ==
    IsSome(finals) =>
        \A x \in {<<d1, Unwrap(finals).d1>>, <<d2, Unwrap(finals).d2>>,
                  <<Unwrap(merged), Unwrap(finals).merged>>} :
            x[2] = (\/ (IsSome(x[1].maction)
                        /\ Unwrap(x[1].maction).atype \in {"Block", "Skip"})
                    \/ \E i \in 1..Len(x[1].reasons) :
                           x[1].reasons[i].action
                               \in {"Skip", "Custom", "Challenge", "Ichallenge"})

\* a decision without action whose only reason is Skip is final
C5_Witness ==
    /\ IsSome(finals)
    /\ d1.maction = None
    /\ Len(d1.reasons) = 1 /\ d1.reasons[1].action = "Skip"
    /\ Unwrap(finals).d1

(***************************************************************************)
(* Properties: the analysis pipeline                                       *)
(***************************************************************************)
Done == pc = "done" /\ IsSome(result)
Stage == Unwrap(result).stage

\* finality as the pipeline's phase boundaries read it: an action other than
\* Monitor, or a block reason whose action is not Monitor
ClaimedFinal(d) ==
    \/ IsSome(d.maction) /\ Unwrap(d.maction).atype /= "Monitor"
    \/ \E i \in 1..Len(d.reasons) : d.reasons[i].action /= "Monitor"

\* the accumulated decision at the end of analyze_init
GfAccumulated(gh_ok) ==
    to_decision(conf.globalfilter_dec.action, conf.precision_level, conf.mgh,
                gh_ok, {}, conf.globalfilter_dec.reasons).decision

\* the accumulated decision after limit processing
LimitAccumulated(gh_ok) ==
    LET limit_check == limit_process(Pass, limit.results)
    IN  merge_decisions(p0_decision,
            to_decision(limit_check.action, conf.precision_level, conf.mgh,
                        gh_ok, {}, limit_check.reasons).decision)

\* C6: a final global-filter decision ends the request in analyze_init with
\* no command sent to the counter store, and a final accumulated decision
\* after limit processing ends the request at the limit stage, before the ACL
\* and the content filter are evaluated.
C6_FinalEndsPipeline ==
    /\ (/\ pc /= "init"
        /\ conf.globalfilter_dec.type = "Action"
        /\ \E gh_ok \in BOOLEAN : ClaimedFinal(GfAccumulated(gh_ok)))
           => /\ Done /\ Stage = "mapped"
              /\ trips = <<>>
              /\ flow.checks = <<>> /\ limit.checks = <<>>
              /\ evaluated = {}
    /\ (/\ Done
        /\ limit_process(Pass, limit.results).type = "Action"
        /\ \E gh_ok \in BOOLEAN : ClaimedFinal(LimitAccumulated(gh_ok)))
           => /\ Stage = "limit"
              /\ evaluated = {}

\* a request whose tags hit force_deny ended at the limit stage by a blocking
\* threshold, the ACL never consulted
C6_Witness ==
    /\ Done /\ Stage = "limit"
    /\ Tag("fd") \in conf.itags /\ conf.secpolicy.acl_active
    /\ IsSome(Unwrap(result).decision.maction)
    /\ Unwrap(Unwrap(result).decision.maction).atype = "Block"
    /\ trips /= <<>>
    /\ evaluated = {}

\* the thresholds of a limit result that the current count exceeds
Exceeded(r) ==
    {k \in 1..Len(r.limit.thresholds) : r.curcount > r.limit.thresholds[k].limit}

\* C7 as stated: when the current count exceeds several thresholds of one
\* limit, the decision of limit_process is the reaction to the highest
\* exceeded threshold alone: its action, its block reason, and nothing of the
\* lower exceeded thresholds.
C7_OnlyHighestThreshold ==
    pc = "finish" =>
        \A i \in 1..Len(limit.results) :
            LET r == limit.results[i]
                top == CHOOSE k \in Exceeded(r) : \A j \in Exceeded(r) : j <= k
            IN  Cardinality(Exceeded(r)) >= 2 =>
                    limit_process(Pass, <<r>>)
                        = limit_pure_react(r.limit, r.limit.thresholds[top])

\* the flow result type the claim gives a check whose key holds llen elements
ClaimedFlowType(is_last, step, llen) ==
    IF ~is_last THEN "NonLast"
    ELSE IF step = llen THEN "LastOk" ELSE "LastBlock"

\* C8: flow_resolve_query gives a terminal step LastOk exactly when its step
\* index equals the LLEN reply for its key (nil counting as 0) and LastBlock
\* otherwise, gives a non-terminal step NonLast, and sends an LPUSH for the
\* key exactly when the step is non-terminal and its index equals that reply.
C8_FlowClassification ==
    [][(pc = "flow_resolve" /\ flow.todo /= <<>> /\ flow.iter /= <<>>) =>
        LET check == Head(flow.todo)
            llen == IF Head(flow.iter) = None THEN 0 ELSE Head(flow.iter)[1]
            pushed == /\ Len(trips') > Len(trips)
                      /\ trips'[Len(trips) + 1].cmds[1] = <<"LPUSH", check.redis_key>>
            classified == Len(flow'.out) = Len(flow.out) + 1
        IN  /\ pushed <=> (~check.is_last /\ check.step = llen)
            /\ classified \/ (pushed /\ faults' /= faults)
            /\ classified =>
                   flow'.out[Len(flow'.out)].tp
                       = ClaimedFlowType(check.is_last, check.step, llen)
            /\ trips' /= trips => pushed
      ]_vars

\* a two-step sequence resolved: the first step advanced its list with an
\* LPUSH and the terminal step was accepted
C8_Witness ==
    /\ pc = "analyze_flows"
    /\ Len(flow.results) = 2
    /\ flow.results[1].tp = "NonLast"
    /\ flow.results[2].tp = "LastOk"
    /\ \E t \in 1..Len(trips) : trips[t].cmds[1][1] = "LPUSH"

PhaseFaulted(phase) == \E i \in 1..Len(faults) : faults[i][1] = phase
IsRedisError(e) == e \in {"redis-connect", "redis-query", "redis-resolve"}
\* nothing but the limits could act on the request
OnlyLimitsAct ==
    /\ conf.globalfilter_dec = Pass
    /\ conf.itags = {}
    /\ conf.cf_result.ok
    /\ conf.uri = "normal"
    /\ conf.body_decoding = "ok"

\* C9: when the connection or a command of the counter store fails in the
\* flow-query or the limit-query phase, the phase yields an empty result list
\* and logs an error, the pipeline goes on to an AnalyzeResult, and the
\* failed phase contributes nothing to the verdict.
C9_RedisFailureDegrades ==
    /\ PhaseFaulted("flow") =>
           /\ flow.results = <<>>
           /\ \A t \in tags : t[1] /= "fc-id"
    /\ PhaseFaulted("limit") =>
           /\ limit.results = <<>>
           /\ \A t \in tags : t[1] /= "limit-id"
           /\ Done => /\ Stage /= "limit"
                      /\ \A i \in 1..Len(Unwrap(result).decision.reasons) :
                             Unwrap(result).decision.reasons[i].initiator.kind /= "Limit"
           /\ (Done /\ OnlyLimitsAct) => Unwrap(result).decision = Decision_pass(<<>>)
    /\ Len(SelectSeq(logs, IsRedisError)) = Len(faults)
    /\ Len(faults) <= 2
    /\ faults /= <<>> =>
           CASE pc = "analyze_flows" -> ENABLED AnalyzeFlows
             [] pc = "query_limits" -> ENABLED QueryLimits
             [] pc = "limit_resolve" -> ENABLED LimitResolveStep
             [] OTHER -> pc \in {"finish", "done"}
    /\ pc = "done" => IsSome(result)

\* the counter store failed in both query phases and the request still went
\* through the ACL and the content filter to its verdict
C9_Witness ==
    /\ Done
    /\ PhaseFaulted("flow") /\ PhaseFaulted("limit")
    /\ conf.flows /= <<>> /\ conf.secpolicy.limits /= <<>>
    /\ Stage = "cf"
    /\ Len(logs) >= 2

PhaseTrips(phase) == Len(SelectSeq(trips, LAMBDA t : t.phase = phase))
HasCounter(checks) == \E i \in 1..Len(checks) : ~zero_limits(checks[i])

\* C10 as stated: a request whose counter store answers makes exactly one
\* round trip in the flow-query phase when it has flow checks and exactly one
\* in the limit-query phase when it has limit counters to update, and none
\* anywhere else.
C10_OneRoundTripPerPhase ==
    (pc \in {"finish", "done"} /\ faults = <<>>) =>
        /\ flow.checks /= <<>> => PhaseTrips("flow") = 1
        /\ HasCounter(limit.checks) => PhaseTrips("limit") = 1
        /\ Len(trips) = PhaseTrips("flow") + PhaseTrips("limit")

\* the limit checks of the request whose thresholds are all zero
ZeroChecks ==
    {i \in 1..Len(limit.checks) :
        \A k \in 1..Len(limit.checks[i].limit.thresholds) :
            limit.checks[i].limit.thresholds[k].limit = 0}
Names(trip, key) == \E c \in 1..Len(trip.cmds) : trip.cmds[c][2] = key

\* C11: for a limit check whose thresholds are all zero, the limit-query
\* phase reports a current count of 1, no command sent to the counter store
\* names the check's key, and the store's entries for the key stay as they
\* were.
C11_ZeroLimitNoCommand ==
    [][\A i \in ZeroChecks :
          LET key == limit.checks[i].key
          IN  /\ \A t \in 1..Len(trips') : ~Names(trips'[t], key)
              /\ redis'.counts[key] = redis.counts[key]
              /\ redis'.sets[key] = redis.sets[key]
              /\ redis'.has_ttl[key] = redis.has_ttl[key]
              /\ Len(limit'.out) >= i => limit'.out[i].curcount = 1
              /\ Len(limit'.results) >= i => limit'.results[i].curcount = 1
      ]_vars

\* an all-zero limit resolved after a counted limit whose key got its EXPIRE:
\* two round trips were made and none names the all-zero limit's key
C11_Witness ==
    /\ pc = "finish"
    /\ Len(limit.results) = 2
    /\ ZeroChecks = {2}
    /\ limit.results[2].curcount = 1
    /\ Len(trips) >= 2
    /\ \A t \in 1..Len(trips) : ~Names(trips[t], limit.checks[2].key)

(***************************************************************************)
(* Request entry points: security-policy matching (securitypolicy.rs),     *)
(* the one-shot entry (lib.rs) and the incremental flow (incremental.rs)   *)
(***************************************************************************)
\* Matching::matches: a matcher is given by the strings its regex accepts
matches(e, str) == str \in e.matcher

\* iter().find(|e| e.matches(str)).map(|m| &m.inner)
find_matching(seq, str) ==
    LET idx == {i \in 1..Len(seq) : matches(seq[i], str)}
    IN  IF idx = {} THEN None
        ELSE Some(seq[CHOOSE i \in idx : \A j \in idx : i <= j].inner)

\* Option::or
Option_or(a, b) == IF IsSome(a) THEN a ELSE b

\* match_securitypolicy: Option<SecurityPolicy>
match_securitypolicy(host, path, cfg, selected_secpol) ==
    LET get_hostmap ==
            Option_or(find_matching(cfg.securitypolicies, host), cfg.default)
        hostmap ==
            IF IsSome(selected_secpol)
               /\ Unwrap(selected_secpol) \in DOMAIN cfg.securitypolicies_map
            THEN Some(cfg.securitypolicies_map[Unwrap(selected_secpol)])
            ELSE get_hostmap
    IN  IF hostmap = None THEN None
        ELSE Option_or(find_matching(Unwrap(hostmap).entries, path),
                       Unwrap(hostmap).default)

\* str::to_lowercase on the header names in use
to_lowercase(k) ==
    CASE k = "A" -> "a"
      [] k = "Content-Length" -> "content-length"
      [] OTHER -> k

\* the decimal digits
Digit(c) ==
    CASE c = "0" -> 0 [] c = "1" -> 1 [] c = "2" -> 2 [] c = "3" -> 3
      [] c = "4" -> 4 [] c = "5" -> 5 [] c = "6" -> 6 [] c = "7" -> 7
      [] c = "8" -> 8 [] c = "9" -> 9 [] OTHER -> -1

RECURSIVE parse_digits(_, _)
parse_digits(acc, s) ==
    IF s = <<>> THEN acc ELSE parse_digits(acc * 10 + Digit(Head(s)), Tail(s))

\* str::parse::<usize>: a non-empty run of decimal digits
parse_usize(s) ==
    IF s /= <<>> /\ \A i \in 1..Len(s) : Digit(s[i]) >= 0
    THEN Ok(parse_digits(0, s))
    ELSE Err("invalid digit")

\* masker: "MASKED{..}" of a digest of the value; the digest is kept symbolic
masker(value) == <<"MASKED", value>>

\* RequestField::base_add on the map of a RequestField
base_add(fields, key, value) ==
    IF key \in DOMAIN fields
    THEN [fields EXCEPT ![key] = @ \o <<" ">> \o value]
    ELSE (key :> value) @@ fields

RECURSIVE map_headers_from(_, _)
\* the loop of map_headers over the entries still to visit; the profiles of
\* the entry scenarios configure no transformation, so that
\* RequestField::add is base_add (requestfields.rs line 83)
map_headers_from(acc, rawheaders) ==
    IF DOMAIN rawheaders = {} THEN acc
    ELSE LET k == CHOOSE x \in DOMAIN rawheaders : TRUE
             lk == to_lowercase(k)
             rest == [x \in DOMAIN rawheaders \ {k} |-> rawheaders[x]]
             nacc == IF lk = "cookie"
                     THEN [acc EXCEPT !.cookies = base_add(@, "cookie", rawheaders[k])]
                     ELSE [acc EXCEPT !.headers = base_add(@, lk, rawheaders[k])]
         IN  map_headers_from(nacc, rest)

\* map_headers
map_headers(rawheaders) ==
    map_headers_from([headers |-> <<>>, cookies |-> <<>>], rawheaders)

\* RawRequest::get_host
get_host(raw) ==
    IF IsSome(raw.meta.authority) THEN Unwrap(raw.meta.authority)
    ELSE IF "host" \in DOMAIN raw.headers THEN raw.headers["host"]
    ELSE "unknown"

\* map_request: the RequestInfo fields the entry points and masking use
map_request(secpolicy, raw) ==
    LET mapped == map_headers(raw.headers)
    IN  [headers |-> mapped.headers, cookies |-> mapped.cookies,
         host |-> get_host(raw),
         body |-> IF secpolicy.content_filter_profile.ignore_body
                  THEN None ELSE raw.mbody,
         secpolicy |-> secpolicy]

\* mask_section followed by RequestField::mask on the headers section
mask_section(sec, section) ==
    [name \in DOMAIN sec |->
        IF name \in section.mask THEN masker(sec[name]) ELSE sec[name]]

\* masking, on the headers of the request-info
masking(req) ==
    [req EXCEPT !.headers =
        mask_section(@, req.secpolicy.content_filter_profile.sections.headers)]

\* the AnalyzeResult of the entry points
EntryResult(dec, tgs, rinfo) ==
    [decision |-> dec, tags |-> tgs, rinfo |-> rinfo]

\* Initiator::Restriction of BlockReason::too_many_entries, entry_too_large,
\* body_too_large
Restriction(tpe, actual, expected) ==
    [kind |-> "Restriction", tpe |-> tpe, actual |-> actual,
     expected |-> expected]

\* cf_block building a Monitor action
cf_block_monitor == Action("Monitor", FALSE, 200, None, "Access denied")

\* the action built by cf_block (add_header) and by body_too_large
cf_block == Action("Block", TRUE, 403, None, "Access denied")

\* the RawRequest that early_block and finalize build from the IData
IData_raw(dt) ==
    [headers |-> dt.headers, meta |-> dt.meta, mbody |-> dt.body]

\* early_block
early_block(dt, action, br) ==
    EntryResult(Decision(Some(action), <<br>>), {},
                map_request(dt.secpol, IData_raw(dt)))

\* incremental body_too_large: the action and the block reason
body_too_large(profile, actual, expected) ==
    [action |-> cf_block,
     reason |-> BlockReason(profile.id, Restriction("too large", actual, expected),
                            to_raw(profile.action.atype))]

\* add_header without the check of the number of headers
add_header_uncounted(dt, key, value) ==
    Ok([dt EXCEPT !.headers = (to_lowercase(key) :> value) @@ @])

\* add_header: Ok(IData) or Err(AnalyzeResult)
add_header(dt, key, value) ==
    LET profile == dt.secpol.content_filter_profile
        hdrs == profile.sections.headers
        action == to_raw(profile.action.atype)
        kl == to_lowercase(key)
        content_length == parse_usize(value)
        inserted == [dt EXCEPT !.headers = (kl :> value) @@ @]
    IN  IF dt.secpol.content_filter_active
        THEN IF Cardinality(DOMAIN dt.headers) >= hdrs.max_count
             THEN Err(early_block(dt, cf_block,
                        BlockReason(profile.id,
                            Restriction("too many",
                                        Cardinality(DOMAIN dt.headers) + 1,
                                        hdrs.max_count),
                            action)))
             ELSE IF kl = "content-length" /\ content_length.ok
                     /\ content_length.value > profile.max_body_size
             THEN LET tl == body_too_large(profile, content_length.value,
                                           profile.max_body_size)
                  IN  Err(early_block(dt, tl.action, tl.reason))
             ELSE IF Len(value) > hdrs.max_length
             THEN Err(early_block(dt, cf_block,
                        BlockReason(profile.id,
                            Restriction("too large", Len(value), hdrs.max_length),
                            action)))
             ELSE Ok(inserted)
        ELSE Ok(inserted)

RECURSIVE add_headers(_, _)
\* add_headers: new_headers in the order the map is iterated, stopping at
\* the first Err
add_headers(dt, new_headers) ==
    IF new_headers = <<>> THEN Ok(dt)
    ELSE LET r == add_header(dt, Head(new_headers)[1], Head(new_headers)[2])
         IN  IF r.ok THEN add_headers(r.value, Tail(new_headers)) ELSE r

\* add_body appending the chunk whatever the accumulated size
add_body_unbounded(dt, new_body) ==
    IF dt.secpol.content_filter_profile.ignore_body THEN Ok(dt)
    ELSE Ok([dt EXCEPT !.body =
                 IF @ = None THEN Some(new_body)
                 ELSE Some(Unwrap(@) \o new_body)])

\* add_body: Ok(IData) or Err(AnalyzeResult)
add_body(dt, new_body) ==
    LET profile == dt.secpol.content_filter_profile
        cur_body_size == IF dt.body = None THEN 0 ELSE Len(Unwrap(dt.body))
        new_size == cur_body_size + Len(new_body)
        max_size == profile.max_body_size
    IN  IF profile.ignore_body THEN Ok(dt)
        ELSE IF dt.secpol.content_filter_active /\ new_size > max_size
        THEN LET tl == body_too_large(profile, new_size, max_size)
             IN  Err(early_block(dt, tl.action, tl.reason))
        ELSE Ok([dt EXCEPT !.body =
                    IF @ = None THEN Some(new_body)
                    ELSE Some(Unwrap(@) \o new_body)])

\* ContentFilterProfile::default_from_seed, SecurityPolicy::default
SecurityPolicy_default ==
    [policy |-> "polid", entry |-> "entryid", content_filter_active |-> FALSE,
     content_filter_profile |->
        [id |-> "__default__", action |-> SimpleAction(Custom("blocked"), None, 503, None),
         ignore_body |-> FALSE, max_body_size |-> 2147483647,
         sections |-> [headers |-> [max_count |-> 42, max_length |-> 1024,
                                    mask |-> {}]]]]

\* inspect_generic_request_map_init: Err(AnalyzeResult) or Ok(APhase0);
\* cfg_read is the outcome of CONFIGS.config.read() in with_config
inspect_generic_request_map_init(cfg_read, cfg, mgh, gh_ok, raw, selected_secpol) ==
    LET tgs == {Tag("all")}
        mmapinfo == match_securitypolicy(get_host(raw), raw.meta.path, cfg,
                                         selected_secpol)
        secpol == [SecurityPolicy_default EXCEPT
                      !.content_filter_profile.ignore_body = TRUE]
        no_policy == Err(EntryResult(Decision_pass(<<>>), tgs,
                                     map_request(secpol, raw)))
    IN  IF ~cfg_read \/ mmapinfo = None THEN no_policy
        ELSE LET secpolicy == Unwrap(mmapinfo)
                 profile == secpolicy.content_filter_profile
                 body_len == IF IsSome(raw.mbody) THEN Len(Unwrap(raw.mbody)) ELSE 0
                 is_too_large == /\ IsSome(raw.mbody)
                                 /\ body_len > profile.max_body_size
                                 /\ ~profile.ignore_body
                 br == BlockReason(profile.id,
                                   Restriction("too large", body_len,
                                               profile.max_body_size),
                                   to_raw(profile.action.atype))
                 reqinfo == map_request(secpolicy, raw)
                 dec == to_decision(profile.action, "Invalid", mgh, gh_ok, tgs,
                                    <<br>>)
             IN  IF is_too_large
                 THEN Err(EntryResult(dec.decision, dec.tags, reqinfo))
                 ELSE Ok([reqinfo |-> reqinfo, itags |-> tgs,
                          flows |-> cfg.flows])

(***************************************************************************)
(* Scenarios of the entry points                                           *)
(***************************************************************************)
\* the number of add_header / add_headers / add_body calls explored
MaxOffered == 3

\* Matching<T>
Matching(matcher, inner) == [matcher |-> matcher, inner |-> inner]
\* HostMap
HostMap(id, entries, default) ==
    [id |-> id, entries |-> entries, default |-> default]
\* Config: the fields the entry points read
Config(securitypolicies, default, flows) ==
    [securitypolicies |-> securitypolicies, default |-> default,
     securitypolicies_map |->
        [i \in {securitypolicies[k].inner.id : k \in 1..Len(securitypolicies)} |->
            (CHOOSE m \in {securitypolicies[k].inner : k \in 1..Len(securitypolicies)} :
                m.id = i)],
     flows |-> flows]

\* a content-filter profile: two headers of two bytes, a body of two bytes
EntryProfileOf(action, ignore_body, max_count, max_length) ==
    [id |-> "cf1", action |-> action, ignore_body |-> ignore_body,
     max_body_size |-> 2,
     sections |-> [headers |-> [max_count |-> max_count,
                                max_length |-> max_length, mask |-> {"a"}]]]

EntryProfile(action, ignore_body, max_count) ==
    EntryProfileOf(action, ignore_body, max_count, 2)

EntryPolicy(name, cf_active, profile) ==
    [policy |-> "pol", entry |-> name, content_filter_active |-> cf_active,
     content_filter_profile |-> profile]

EntryActions == {ActCustom, ActMonitor("v1"), ActSkip, ActChallenge}

EntryPolicies ==
    {EntryPolicy("x", cf_active, EntryProfile(action, ignore_body, max_count)) :
        cf_active \in BOOLEAN, action \in {ActCustom, ActMonitor("v1")},
        ignore_body \in BOOLEAN, max_count \in {1, 2}}
      \cup {EntryPolicy("x", TRUE, EntryProfile(action, FALSE, 2)) :
                action \in EntryActions}

DefaultEntryPolicy == EntryPolicy("d", TRUE, EntryProfile(ActCustom, FALSE, 1))

\* one host map for a.com, whose one entry serves /x
HostMapOf(pol, default) == HostMap("hm1", <<Matching({"/x"}, pol)>>, default)

EntryConfigs ==
    LET polx == EntryPolicy("x", TRUE, EntryProfile(ActCustom, FALSE, 1))
    IN  {Config(<<Matching({"a.com"}, HostMapOf(polx, d))>>, hd, <<>>) :
            d \in {None, Some(DefaultEntryPolicy)},
            hd \in {None, Some(HostMap("hm0", <<>>, Some(DefaultEntryPolicy)))}}
          \cup {Config(<<>>, hd, <<>>) :
            hd \in {None, Some(HostMap("hm0", <<>>, None))}}

\* RequestMeta: authority and path
Meta(authority, path) == [authority |-> authority, path |-> path]

\* the request served by policy pol, with or without a challenge service
PolicyScenario(pol, mgh) ==
    [cfg |-> Config(<<Matching({"a.com"}, HostMapOf(pol, None))>>, None, <<>>),
     meta |-> Meta(Some("a.com"), "/x"), selected_secpol |-> None, mgh |-> mgh]

EntryScenarios ==
    {PolicyScenario(pol, FALSE) : pol \in EntryPolicies}
      \cup {PolicyScenario(EntryPolicy("x", TRUE, EntryProfile(ActChallenge, FALSE, 2)),
                           TRUE)}
      \cup {PolicyScenario(EntryPolicy("x", TRUE,
                                        EntryProfileOf(ActCustom, FALSE, n, l)),
                           FALSE) : n \in {0, 2}, l \in {0, 2}}
      \cup
    {[cfg |-> cfg, meta |-> Meta(authority, path), selected_secpol |-> sel,
      mgh |-> FALSE] :
        cfg \in EntryConfigs, authority \in {None, Some("a.com"), Some("b.com")},
        path \in {"/x", "/y"}, sel \in {None, Some("hm1"), Some("zz")}}

\* header names and values a caller hands over
HeaderInputs ==
    {<<"a", <<"1">>>>, <<"A", <<"x", "x", "x">>>>, <<"b", <<"1">>>>,
     <<"c", <<"v">>>>, <<"content-length", <<"1">>>>,
     <<"Content-Length", <<"9">>>>}

\* the maps handed to add_headers, in the order they are iterated
NewHeaders ==
    {<<<<"a", <<"1">>>>, <<"b", <<"1">>>>>>,
     <<<<"b", <<"1">>>>, <<"a", <<"1">>>>>>,
     <<<<"A", <<"1">>>>, <<"a", <<"s">>>>>>,
     <<<<"c", <<"x", "x", "x">>>>, <<"b", <<"1">>>>>>}

BodyChunks == {<<"b">>, <<"b", "b">>}

\* the header maps and bodies of one-shot requests
RawHeaders ==
    {<<>>, "a" :> <<"s">>, ("a" :> <<"s">>) @@ ("A" :> <<"t">>),
     ("a" :> <<"s">>) @@ ("b" :> <<"x", "x", "x">>) @@ ("c" :> <<"v">>)}
RawBodies == {None, Some(<<"b">>), Some(<<"b", "b", "b">>)}

EntryInit ==
    /\ epc = "start"
    /\ ecfg \in EntryScenarios
    /\ idata = None
    /\ offered = <<>>
    /\ ret = None

(***************************************************************************)
(* The calls of the entry points                                           *)
(***************************************************************************)
\* inspect_init
InspectInit ==
    /\ epc = "start"
    /\ LET mr == match_securitypolicy(
                    IF IsSome(ecfg.meta.authority)
                    THEN Unwrap(ecfg.meta.authority) ELSE "localhost",
                    ecfg.meta.path, ecfg.cfg, ecfg.selected_secpol)
       IN  IF mr = None
           THEN /\ ret' = Some(Err([message |->
                                "could not find a matching security policy"]))
                /\ idata' = None
                /\ epc' = "closed"
           ELSE /\ idata' = Some([meta |-> ecfg.meta, headers |-> <<>>,
                                  secpol |-> Unwrap(mr), body |-> None])
                /\ ret' = Some(Ok(Unwrap(idata')))
                /\ epc' = "open"
    /\ UNCHANGED <<ecfg, offered, nonEntryVars>>

\* what a call that consumes the IData leaves behind
Returned(r) ==
    /\ ret' = Some(r)
    /\ idata' = IF r.ok THEN Some(r.value) ELSE None
    /\ epc' = IF r.ok THEN "open" ELSE "closed"

\* add_header
AddHeader ==
    /\ epc = "open"
    /\ Len(offered) < MaxOffered
    /\ \E h \in HeaderInputs :
          /\ offered' = Append(offered, <<"header", <<h>>>>)
          /\ Returned(add_header(Unwrap(idata), h[1], h[2]))
    /\ UNCHANGED <<ecfg, nonEntryVars>>

\* add_headers
AddHeaders ==
    /\ epc = "open"
    /\ Len(offered) < MaxOffered
    /\ \E new_headers \in NewHeaders :
          /\ offered' = Append(offered, <<"header", new_headers>>)
          /\ Returned(add_headers(Unwrap(idata), new_headers))
    /\ UNCHANGED <<ecfg, nonEntryVars>>

\* add_body
AddBody ==
    /\ epc = "open"
    /\ Len(offered) < MaxOffered
    /\ \E chunk \in BodyChunks :
          /\ offered' = Append(offered, <<"body", chunk>>)
          /\ Returned(add_body(Unwrap(idata), chunk))
    /\ UNCHANGED <<ecfg, nonEntryVars>>

\* finalize: the IData is consumed into the request-info and the APhase0
\* handed to analyze, whose phases are AnalyzeInit .. AnalyzeFinish above
Finalize ==
    /\ epc = "open"
    /\ LET dt == Unwrap(idata)
       IN  ret' = Some(Ok([reqinfo |-> map_request(dt.secpol, IData_raw(dt)),
                           itags |-> {Tag("all")}, flows |-> ecfg.cfg.flows]))
    /\ idata' = None
    /\ epc' = "analyze"
    /\ UNCHANGED <<ecfg, offered, nonEntryVars>>

\* inspect_generic_request_map_init on a whole request
InspectGenericRequestMapInit ==
    /\ epc = "start"
    /\ \E headers \in RawHeaders, mbody \in RawBodies, cfg_read \in BOOLEAN,
          gh_ok \in BOOLEAN :
          LET raw == [headers |-> headers, meta |-> ecfg.meta, mbody |-> mbody]
              r == inspect_generic_request_map_init(cfg_read, ecfg.cfg, ecfg.mgh,
                                                    gh_ok, raw, ecfg.selected_secpol)
          IN  /\ offered' = <<<<"request", raw>>>>
              /\ ret' = Some(r)
              /\ epc' = IF r.ok THEN "analyze" ELSE "closed"
    /\ idata' = None
    /\ UNCHANGED <<ecfg, nonEntryVars>>

InitEntry ==
    /\ EntryInit
    /\ ReloadIdle
    /\ AclIdle
    /\ MergeIdle
    /\ PipeIdle
    /\ StrongerIdle
    /\ FilterIdle
    /\ FieldIdle
    /\ SectionIdle
    /\ TagsIdle
    /\ FlowIdle
    /\ MaskIdle
    /\ CreloadIdle
    /\ StreamIdle

NextEntry ==
    \/ InspectInit
    \/ AddHeader
    \/ AddHeaders
    \/ AddBody
    \/ Finalize
    \/ InspectGenericRequestMapInit

SpecEntry == InitEntry /\ [][NextEntry]_vars

(***************************************************************************)
(* Claims on the entry points                                              *)
(***************************************************************************)
\* a decision that blocks: a Block action in block mode
Blocking(d) ==
    /\ IsSome(d.maction)
    /\ Unwrap(d.maction).atype = "Block"
    /\ Unwrap(d.maction).block_mode

\* the call being made offers headers / a body chunk to the open IData
OffersHeaders ==
    epc = "open" /\ Len(offered') = Len(offered) + 1
        /\ offered'[Len(offered')][1] = "header"
OffersBody ==
    epc = "open" /\ Len(offered') = Len(offered) + 1
        /\ offered'[Len(offered')][1] = "body"

\* the call returned Err with an early blocking result of the given kind
EarlyBlock(r, tpe) ==
    /\ ~r.ok
    /\ Blocking(r.error.decision)
    /\ Len(r.error.decision.reasons) = 1
    /\ r.error.decision.reasons[1].initiator.kind = "Restriction"
    /\ r.error.decision.reasons[1].initiator.tpe = tpe

\* C12: with the content filter active and a header max_count of n, the
\* header map of the IData never holds more than n headers; a call of
\* add_header / add_headers made while the map holds n headers returns Err
\* with an early blocking "too many" result; and once a call has returned
\* Err the IData is gone, so that no later header is stored.
C12_HeaderCountBounded ==
    [][/\ (OffersHeaders /\ Unwrap(idata).secpol.content_filter_active) =>
            LET dt == Unwrap(idata)
                n == dt.secpol.content_filter_profile.sections.headers.max_count
            IN  /\ IsSome(idata') => Cardinality(DOMAIN Unwrap(idata').headers) <= n
                /\ Cardinality(DOMAIN dt.headers) >= n =>
                      /\ EarlyBlock(Unwrap(ret'), "too many")
                      /\ idata' = None
                /\ ~Unwrap(ret').ok => idata' = None /\ epc' = "closed"
       /\ epc = "closed" => idata = None /\ idata' = None
      ]_vars

\* two headers are held under max_count = 2 and the third one offered is
\* refused with the "too many" restriction
C12_Witness ==
    /\ epc = "closed"
    /\ Len(offered) = 3
    /\ \A i \in 1..3 : offered[i][1] = "header" /\ Len(offered[i][2]) = 1
    /\ EarlyBlock(Unwrap(ret), "too many")
    /\ Unwrap(ret).error.decision.reasons[1].initiator.expected = 2
    /\ Cardinality(DOMAIN Unwrap(ret).error.rinfo.headers) = 2

\* the size of the body accumulated in an IData
BodySize(dt) == IF dt.body = None THEN 0 ELSE Len(Unwrap(dt.body))

\* C13: with the content filter active and the body not ignored, the body
\* accumulated in the IData never exceeds max_body_size; add_body returns
\* Err with an early blocking "too large" result, the chunk not appended,
\* whenever the accumulated size plus the chunk size exceeds max_body_size,
\* and appends the chunk otherwise.
C13_BodySizeBounded ==
    [][/\ (OffersBody /\ Unwrap(idata).secpol.content_filter_active
              /\ ~Unwrap(idata).secpol.content_filter_profile.ignore_body) =>
            LET dt == Unwrap(idata)
                chunk == offered'[Len(offered')][2]
                max_size == dt.secpol.content_filter_profile.max_body_size
            IN  IF BodySize(dt) + Len(chunk) > max_size
                THEN /\ EarlyBlock(Unwrap(ret'), "too large")
                     /\ Unwrap(ret').error.rinfo.body = dt.body
                     /\ idata' = None
                ELSE /\ Unwrap(ret').ok
                     /\ BodySize(Unwrap(idata')) = BodySize(dt) + Len(chunk)
       /\ (/\ IsSome(idata')
           /\ Unwrap(idata').secpol.content_filter_active
           /\ ~Unwrap(idata').secpol.content_filter_profile.ignore_body) =>
            BodySize(Unwrap(idata'))
                <= Unwrap(idata').secpol.content_filter_profile.max_body_size
      ]_vars

\* one byte is held and a chunk of two more bytes is refused: the early
\* result still shows the one byte
C13_Witness ==
    /\ epc = "closed"
    /\ Len(offered) >= 2
    /\ offered[Len(offered)] = <<"body", <<"b", "b">>>>
    /\ EarlyBlock(Unwrap(ret), "too large")
    /\ Unwrap(ret).error.rinfo.body = Some(<<"b">>)

\* the decision carries a Restriction block reason
HasRestriction(d) ==
    \E i \in 1..Len(d.reasons) : d.reasons[i].initiator.kind = "Restriction"

\* the one-shot request raw is beyond a limit of the profile of secpol
RequestViolates(raw, secpol) ==
    LET profile == secpol.content_filter_profile
        hdrs == profile.sections.headers
    IN  \/ Cardinality(DOMAIN raw.headers) > hdrs.max_count
        \/ \E k \in DOMAIN raw.headers : Len(raw.headers[k]) > hdrs.max_length
        \/ /\ IsSome(raw.mbody)
           /\ ~profile.ignore_body
           /\ Len(Unwrap(raw.mbody)) > profile.max_body_size

\* the one-shot entry point has returned an AnalyzeResult
OneShotReturned ==
    /\ epc = "closed"
    /\ Len(offered) = 1
    /\ offered[1][1] = "request"

RECURSIVE OfferViolates(_, _, _)
\* some header of the offered list comes when the map is full or has a value
\* longer than max_length; held is the set of names stored before it
OfferViolates(held, new_headers, hdrs) ==
    IF new_headers = <<>> THEN FALSE
    ELSE \/ Cardinality(held) >= hdrs.max_count
         \/ Len(Head(new_headers)[2]) > hdrs.max_length
         \/ OfferViolates(held \cup {to_lowercase(Head(new_headers)[1])},
                          Tail(new_headers), hdrs)

ResultReturned ==
    epc = "closed" /\ Len(offered) > 0 /\ ~Unwrap(ret).ok

\* C15: the request-info of every AnalyzeResult returned by an entry point
\* (the early results of add_header / add_headers / add_body, the
\* body-too-large and no-policy results of the one-shot entry) is the
\* masked request-info: every header that the profile marks for masking
\* shows the masker's digest, never the value the client sent.
C15_ResultsMasked ==
    ResultReturned =>
        LET rinfo == Unwrap(ret).error.rinfo
            section == rinfo.secpolicy.content_filter_profile.sections.headers
        IN  \A name \in DOMAIN rinfo.headers \cap section.mask :
                \E value \in {<<"s">>, <<"t">>, <<"1">>, <<"x", "x", "x">>,
                               <<"s", " ", "t">>, <<"t", " ", "s">>} :
                    rinfo.headers[name] = masker(value)

\* the call returned a pass decision (no action, no block reason) together
\* with a request-info
PassResult(r) ==
    /\ ~r.ok
    /\ {"decision", "rinfo"} \subseteq DOMAIN r.error
    /\ r.error.decision = Decision_pass(<<>>)

\* C16: when no security policy matches the host and path of the request,
\* the one-shot entry point and inspect_init both end the request with a
\* pass decision and a request-info, never with an error or a block.
C16_NoPolicyPasses ==
    /\ (OneShotReturned
          /\ match_securitypolicy(get_host(offered[1][2]), ecfg.meta.path,
                                  ecfg.cfg, ecfg.selected_secpol) = None)
         => PassResult(Unwrap(ret))
    /\ (epc = "closed" /\ offered = <<>>) => PassResult(Unwrap(ret))

(***************************************************************************)
(* The shared configuration: reload_config (config/mod.rs) against one     *)
(* request of the one-shot entry (lib.rs, analyze.rs)                      *)
(***************************************************************************)
\* the number of configuration revisions published on disk
MaxRevision == 3

\* Config: each part with the revision of the files it was resolved from
ConfigAt(revision) ==
    [revision |-> revision, securitypolicies |-> revision,
     globalfilters |-> revision, flows |-> revision]

\* LockedConfig::initial: config and hsdb loaded from the same files
ReloadInit ==
    /\ CONFIGS = [config |-> ConfigAt(1), hsdb |-> 1]
    /\ disk = 1
    /\ reload = None
    /\ rq = [pc |-> "start", securitypolicy |-> None, globalfilters |-> None,
             flows |-> None, hsdb |-> None]

\* a new revision of the configuration files is put in place
Publish ==
    /\ disk < MaxRevision
    /\ disk' = disk + 1
    /\ UNCHANGED <<CONFIGS, reload, rq, nonReloadVars>>

\* reload_config with no file name (every file is reloaded), up to the
\* write of CONFIGS.config; the hsdb it loaded is still to be written
ReloadConfig ==
    /\ reload = None
    /\ CONFIGS' = [CONFIGS EXCEPT !.config = ConfigAt(disk)]
    /\ reload' = Some(disk)
    /\ UNCHANGED <<disk, rq, nonReloadVars>>

\* reload_config: the write of CONFIGS.hsdb, under its own lock
ReloadHsdb ==
    /\ reload /= None
    /\ CONFIGS' = [CONFIGS EXCEPT !.hsdb = Unwrap(reload)]
    /\ reload' = None
    /\ UNCHANGED <<disk, rq, nonReloadVars>>

\* inspect_generic_request_map_init: the security policy, the global
\* filters and the flows are taken inside one with_config closure
RequestInit ==
    /\ rq.pc = "start"
    /\ rq' = [rq EXCEPT !.pc = "flows",
                        !.securitypolicy = Some(CONFIGS.config.securitypolicies),
                        !.globalfilters = Some(CONFIGS.config.globalfilters),
                        !.flows = Some(CONFIGS.config.flows)]
    /\ UNCHANGED <<CONFIGS, disk, reload, nonReloadVars>>

\* analyze_query_flows: the request is suspended on the counter store
AwaitFlows ==
    /\ rq.pc = "flows"
    /\ rq' = [rq EXCEPT !.pc = "limits"]
    /\ UNCHANGED <<CONFIGS, disk, reload, nonReloadVars>>

\* analyze_query_limits: the request is suspended on the counter store
AwaitLimits ==
    /\ rq.pc = "limits"
    /\ rq' = [rq EXCEPT !.pc = "finish"]
    /\ UNCHANGED <<CONFIGS, disk, reload, nonReloadVars>>

\* analyze_finish under CfRulesArg::Global: when the content filter is
\* reached and the lock is obtained, the signature set is read from
\* CONFIGS.hsdb
RequestFinish ==
    /\ rq.pc = "finish"
    /\ \E reaches_cf \in BOOLEAN, hsdb_read \in BOOLEAN :
          rq' = [rq EXCEPT !.pc = "done",
                           !.hsdb = IF reaches_cf /\ hsdb_read
                                    THEN Some(CONFIGS.hsdb) ELSE None]
    /\ UNCHANGED <<CONFIGS, disk, reload, nonReloadVars>>

InitReload ==
    /\ ReloadInit
    /\ AclIdle
    /\ MergeIdle
    /\ PipeIdle
    /\ EntryIdle
    /\ StrongerIdle
    /\ FilterIdle
    /\ FieldIdle
    /\ SectionIdle
    /\ TagsIdle
    /\ FlowIdle
    /\ MaskIdle
    /\ CreloadIdle
    /\ StreamIdle

NextReload ==
    \/ Publish
    \/ ReloadConfig
    \/ ReloadHsdb
    \/ RequestInit
    \/ AwaitFlows
    \/ AwaitLimits
    \/ RequestFinish

SpecReload == InitReload /\ [][NextReload]_vars

\* C17: the security policy, the global filters and the flows a request
\* took at its start and the signature set its content-filter phase used
\* all come from one configuration revision, whatever reload_config does
\* while the request is suspended on the counter store.
C17_SingleSnapshot ==
    (rq.pc = "done" /\ IsSome(rq.hsdb)) =>
        /\ rq.securitypolicy = rq.globalfilters
        /\ rq.globalfilters = rq.flows
        /\ rq.flows = rq.hsdb

(***************************************************************************)
(* stronger_decision on pairs of simple decisions (interface/mod.rs)       *)
(***************************************************************************)
\* the simple actions of the two arguments
StrongerActions ==
    {ActSkip, ActMonitor("v1"), ActMonitor("v2"),
     SimpleAction(Monitor, None, 200, None), ActCustom,
     SimpleAction(Custom("other"), None, 403, None), ActChallenge}

SimpleDecisions(id) ==
    {Pass} \cup UNION {
        {SAction(a, <<>>),
         SAction(a, <<BlockReason(id, [kind |-> "GlobalFilter"],
                                  to_raw(a.atype))>>)} :
        a \in StrongerActions}

StrongerInit ==
    /\ sd1 \in SimpleDecisions("d1")
    /\ sd2 \in SimpleDecisions("d2")
    /\ stronger = None

\* stronger_decision(sd1, sd2)
StrongerDecision ==
    /\ stronger = None
    /\ stronger' = Some(stronger_decision(sd1, sd2))
    /\ UNCHANGED <<sd1, sd2, nonStrongerVars>>

InitStronger ==
    /\ StrongerInit
    /\ AclIdle
    /\ MergeIdle
    /\ PipeIdle
    /\ EntryIdle
    /\ ReloadIdle
    /\ FilterIdle
    /\ FieldIdle
    /\ SectionIdle
    /\ TagsIdle
    /\ FlowIdle
    /\ MaskIdle
    /\ CreloadIdle
    /\ StreamIdle

NextStronger == StrongerDecision

SpecStronger == InitStronger /\ [][NextStronger]_vars

\* C18: stronger_decision follows the rule of merge_decisions: of two
\* actions the one with the higher priority is kept; with equal priorities
\* the action of the first argument is kept, its headers merged with the
\* second's when both are Monitor; the block reasons of both are kept, the
\* first argument's first.
C18_StrongerAsMerge ==
    (IsSome(stronger) /\ sd1.type = "Action" /\ sd2.type = "Action") =>
        LET r == Unwrap(stronger)
            p1 == SimpleActionT_priority(sd1.action.atype)
            p2 == SimpleActionT_priority(sd2.action.atype)
            monitors == sd1.action.atype = Monitor /\ sd2.action.atype = Monitor
        IN  /\ r.type = "Action"
            /\ r.reasons = sd1.reasons \o sd2.reasons
            /\ p1 > p2 => r.action = sd1.action
            /\ p2 > p1 => r.action = sd2.action
            /\ (p1 = p2 /\ ~monitors) => r.action = sd1.action
            /\ monitors =>
                  r.action = [sd1.action EXCEPT !.headers =
                                 MergeHeaderOptions(sd1.action.headers,
                                                    sd2.action.headers)]

(***************************************************************************)
(* Global filter relations: optimize_ipranges (config/globalfilter.rs)     *)
(* and check_rule (tagging.rs).                                            *)
(*                                                                         *)
(* An IpAddr is [family, addr]; the address of a family has AddrBits bits. *)
(* An IpNet is [family, base, len]: the addresses that agree with base on  *)
(* their first len bits.  An IpRange<N> is the set of the networks it      *)
(* holds, each reduced to its prefix.                                      *)
(***************************************************************************)
MaxEntries == 2

Families == {"V4", "V6"}

AddrBits(family) == IF family = "V4" THEN 2 ELSE 1

IpAddr(family, addr) == [family |-> family, addr |-> addr]

IpNet(family, base, len) == [family |-> family, base |-> base, len |-> len]

\* the first len bits of an address
prefix_bits(family, addr, len) == addr \div (2 ^ (AddrBits(family) - len))

\* IpNet::trunc: the network with its host bits cleared
trunc(n) ==
    IpNet(n.family,
          prefix_bits(n.family, n.base, n.len) * (2 ^ (AddrBits(n.family) - n.len)),
          n.len)

\* IpNet::from(addr): the network that holds just this address
IpNet_from(ip) == IpNet(ip.family, ip.addr, AddrBits(ip.family))

\* IpNet::contains(&IpAddr)
IpNet_contains(n, ip) ==
    /\ n.family = ip.family
    /\ prefix_bits(n.family, n.base, n.len) = prefix_bits(ip.family, ip.addr, n.len)

\* one network lies within another
supernet_of(m, n) ==
    /\ m.family = n.family
    /\ m.len <= n.len
    /\ prefix_bits(m.family, m.base, m.len) = prefix_bits(n.family, n.base, m.len)

\* IpRange::contains, for an address and for a network
IpRange_contains(rng, ip) == \E n \in rng : IpNet_contains(n, ip)

IpRange_contains_net(rng, n) == \E m \in rng : supernet_of(m, n)

\* the network one bit shorter, and the other half of it
supernet(n) == trunc(IpNet(n.family, n.base, n.len - 1))

sibling(n) ==
    LET half == 2 ^ (AddrBits(n.family) - n.len)
    IN  IF n.base = supernet(n).base
        THEN IpNet(n.family, n.base + half, n.len)
        ELSE IpNet(n.family, n.base - half, n.len)

\* IpRange::simplify: two halves become their supernet, covered networks go
RECURSIVE IpRange_simplify(_)
IpRange_simplify(rng) ==
    LET joined  == rng \cup {supernet(n) : n \in {k \in rng : k.len > 0 /\ sibling(k) \in rng}}
        reduced == {n \in joined : ~\E m \in joined : m /= n /\ supernet_of(m, n)}
    IN  IF reduced = rng THEN rng ELSE IpRange_simplify(reduced)

\* IpRange::intersect
IpRange_intersect(r1, r2) ==
    IpRange_simplify({n \in r1 : IpRange_contains_net(r2, n)}
                     \cup {n \in r2 : IpRange_contains_net(r1, n)})

torange(n) == {trunc(n)}

\* out.add(e) for each element, then simplify
union(elems) == IpRange_simplify({trunc(elems[i]) : i \in DOMAIN elems})

RECURSIVE intersection_fold(_, _)
intersection_fold(currange, rest) ==
    IF rest = <<>> THEN currange
    ELSE intersection_fold(IpRange_intersect(currange, torange(Head(rest))),
                           Tail(rest))

intersection(elems) ==
    IF elems = <<>> THEN {}
    ELSE intersection_fold(torange(Head(elems)), Tail(elems))

(***************************************************************************)
(* GlobalFilterRule: Rel(GlobalFilterRelation) or Entry(GlobalFilterEntry) *)
(***************************************************************************)
Rel(relation, entries) ==
    [rule |-> "Rel", relation |-> relation, entries |-> entries]

Entry(negated, entry) ==
    [rule |-> "Entry", negated |-> negated, entry |-> entry]

Always(b) == [kind |-> "Always", value |-> b]

Ip(addr) == [kind |-> "Ip", addr |-> addr]

Network(net) == [kind |-> "Network", net |-> net]

Range4(rng) == [kind |-> "Range4", range |-> rng]

Range6(rng) == [kind |-> "Range6", range |-> rng]

MatchResult(matched, matching) == [matched |-> matched, matching |-> matching]

\* check_entry, for the kinds of entry modelled here; ip is geoip.ip
check_entry(ip, sub) ==
    LET e == sub.entry
        r == CASE e.kind = "Always" ->
                    IF e.value THEN Some({"Request"}) ELSE None
               [] e.kind = "Ip" ->
                    IF IsSome(ip) /\ Unwrap(ip) = e.addr
                    THEN Some({"Ip"}) ELSE None
               [] e.kind = "Network" ->
                    IF IsSome(ip) /\ IpNet_contains(e.net, Unwrap(ip))
                    THEN Some({"Ip"}) ELSE None
               [] e.kind = "Range4" ->
                    IF /\ IsSome(ip)
                       /\ Unwrap(ip).family = "V4"
                       /\ IpRange_contains(e.range, Unwrap(ip))
                    THEN Some({"Ip"}) ELSE None
               [] e.kind = "Range6" ->
                    IF /\ IsSome(ip)
                       /\ Unwrap(ip).family = "V6"
                       /\ IpRange_contains(e.range, Unwrap(ip))
                    THEN Some({"Ip"}) ELSE None
    IN  IF IsSome(r)
        THEN MatchResult(Unwrap(r), ~sub.negated)
        ELSE MatchResult({}, sub.negated)

RECURSIVE check_rule(_, _)
RECURSIVE check_and(_, _, _)
RECURSIVE check_or(_, _)
\* Relation::And: the first entry that does not match ends the loop
check_and(ip, entries, matched) ==
    IF entries = <<>> THEN MatchResult(matched, TRUE)
    ELSE LET res == check_rule(ip, Head(entries))
         IN  IF ~res.matching THEN MatchResult({}, FALSE)
             ELSE check_and(ip, Tail(entries), matched \cup res.matched)

\* Relation::Or: the first entry that matches is the result
check_or(ip, entries) ==
    IF entries = <<>> THEN MatchResult({}, FALSE)
    ELSE LET res == check_rule(ip, Head(entries))
         IN  IF res.matching THEN res ELSE check_or(ip, Tail(entries))

check_rule(ip, rel) ==
    IF rel.rule = "Rel"
    THEN IF rel.relation = "And" THEN check_and(ip, rel.entries, {})
         ELSE check_or(ip, rel.entries)
    ELSE check_entry(ip, rel)

\* whether a rule is a single-IP or CIDR entry, and the network it stands for
is_ip_entry(r) == r.rule = "Entry" /\ r.entry.kind \in {"Ip", "Network"}

entry_net(r) ==
    IF r.entry.kind = "Ip" THEN IpNet_from(r.entry.addr) ELSE r.entry.net

\* the stack p4 / n4 / p6 / n6 of optimize_ipranges
RECURSIVE ip_stack(_, _, _)
ip_stack(unoptimized, family, negated) ==
    IF unoptimized = <<>> THEN <<>>
    ELSE LET r == Head(unoptimized)
             rest == ip_stack(Tail(unoptimized), family, negated)
         IN  IF /\ is_ip_entry(r)
                /\ entry_net(r).family = family
                /\ r.negated = negated
             THEN <<entry_net(r)>> \o rest
             ELSE rest

\* the ranges pushed for the stacks: by De Morgan the negated stack takes
\* the union under And and the intersection under Or
positive_range(rel, stack) ==
    IF rel = "And" THEN intersection(stack) ELSE union(stack)

\* the negated stack treated like the positive one
negative_range_same(rel, stack) ==
    IF rel = "And" THEN intersection(stack) ELSE union(stack)

negative_range(rel, stack) ==
    IF rel = "And" THEN union(stack) ELSE intersection(stack)

optimize_ipranges(rel, unoptimized) ==
    LET p4 == ip_stack(unoptimized, "V4", FALSE)
        n4 == ip_stack(unoptimized, "V4", TRUE)
        p6 == ip_stack(unoptimized, "V6", FALSE)
        n6 == ip_stack(unoptimized, "V6", TRUE)
        other == SelectSeq(unoptimized, LAMBDA r : ~is_ip_entry(r))
    IN  other
        \o (IF p4 /= <<>>
            THEN <<Entry(FALSE, Range4(positive_range(rel, p4)))>> ELSE <<>>)
        \o (IF n4 /= <<>>
            THEN <<Entry(TRUE, Range4(negative_range(rel, n4)))>> ELSE <<>>)
        \o (IF p6 /= <<>>
            THEN <<Entry(FALSE, Range6(positive_range(rel, p6)))>> ELSE <<>>)
        \o (IF n6 /= <<>>
            THEN <<Entry(TRUE, Range6(negative_range(rel, n6)))>> ELSE <<>>)

\* convert_rule on a relation
convert_rule(relation, entries) ==
    Rel(relation, optimize_ipranges(relation, entries))

(***************************************************************************)
(* The configured relations and the requests checked against them.        *)
(***************************************************************************)
Relations == {"And", "Or"}

Addrs(family) == 0 .. (2 ^ AddrBits(family)) - 1

IpAddrs == UNION {{IpAddr(f, a) : a \in Addrs(f)} : f \in Families}

\* CIDR entries as written in a configuration: host bits may be set
IpNets ==
    UNION {{IpNet(f, b, l) : b \in Addrs(f), l \in 0 .. AddrBits(f)} : f \in Families}

EntryKinds ==
    {Ip(a) : a \in IpAddrs} \cup {Network(n) : n \in IpNets}
        \cup {Always(b) : b \in BOOLEAN}

FilterEntries == {Entry(neg, e) : neg \in BOOLEAN, e \in EntryKinds}

EntryLists ==
    UNION {[1 .. n -> FilterEntries] : n \in 1 .. MaxEntries}

InitFilter ==
    /\ AclIdle
    /\ MergeIdle
    /\ PipeIdle
    /\ EntryIdle
    /\ ReloadIdle
    /\ StrongerIdle
    /\ FieldIdle
    /\ SectionIdle
    /\ TagsIdle
    /\ FlowIdle
    /\ MaskIdle
    /\ CreloadIdle
    /\ StreamIdle
    /\ gf_rel \in Relations
    /\ gf_entries \in EntryLists
    /\ gf_optimized = None
    /\ gf_ip = None
    /\ gf_matching = None

\* GlobalFilterSection::resolve builds the rule the requests are checked with
Resolve ==
    /\ gf_optimized = None
    /\ gf_optimized' = Some(convert_rule(gf_rel, gf_entries))
    /\ UNCHANGED <<gf_rel, gf_entries, gf_ip, gf_matching>>
    /\ UNCHANGED nonFilterVars

\* a request arrives: check_rule on the relation as configured and on the
\* relation as resolved
CheckRule ==
    /\ IsSome(gf_optimized)
    /\ gf_matching = None
    /\ \E ip \in {None} \cup {Some(a) : a \in IpAddrs} :
          /\ gf_ip' = ip
          /\ gf_matching' =
                Some([unoptimized |->
                          check_rule(ip, Rel(gf_rel, gf_entries)).matching,
                      optimized |->
                          check_rule(ip, Unwrap(gf_optimized)).matching])
    /\ UNCHANGED <<gf_rel, gf_entries, gf_optimized>>
    /\ UNCHANGED nonFilterVars

NextFilter ==
    \/ Resolve
    \/ CheckRule

SpecFilter == InitFilter /\ [][NextFilter]_vars

\* the entries hold a single-IP entry or a CIDR entry
HasIpEntries ==
    \E i \in DOMAIN gf_entries : is_ip_entry(gf_entries[i])

\* C19: for every And/Or relation whose entries include single-IP and CIDR
\* entries (IPv4 or IPv6, negated or not, possibly next to entries of other
\* kinds) and for every request IP, check_rule on the relation rewritten by
\* optimize_ipranges gives the same matching verdict as check_rule on the
\* relation as configured.
C19_OptimizedSameVerdict ==
    (IsSome(gf_matching) /\ HasIpEntries /\ IsSome(gf_ip)) =>
        Unwrap(gf_matching).optimized = Unwrap(gf_matching).unoptimized

\* an And relation of a negated IPv4 network, an IPv4 address and so two
\* stacks, checked with an address that matches
C19_Witness ==
    /\ IsSome(gf_matching)
    /\ IsSome(gf_ip)
    /\ gf_rel = "And"
    /\ Len(gf_entries) = 2
    /\ \E i, j \in DOMAIN gf_entries :
          /\ is_ip_entry(gf_entries[i]) /\ gf_entries[i].negated
          /\ gf_entries[i].entry.kind = "Network"
          /\ is_ip_entry(gf_entries[j]) /\ ~gf_entries[j].negated
    /\ Unwrap(gf_matching).unoptimized
    /\ Unwrap(gf_matching).optimized

(***************************************************************************)
(* Strings of the Field Store (requestfields.rs, utils/decoders.rs).       *)
(*                                                                         *)
(* A String is the sequence of its UTF-8 bytes.  A byte is written as the  *)
(* ASCII character it encodes when that character is printable, and as     *)
(* "xHH" otherwise; ord and chr convert between a byte and its value.      *)
(***************************************************************************)
ByteNames ==
    <<
       "x00", "x01", "x02", "x03", "x04", "x05", "x06", "x07",
       "x08", "x09", "x0A", "x0B", "x0C", "x0D", "x0E", "x0F",
       "x10", "x11", "x12", "x13", "x14", "x15", "x16", "x17",
       "x18", "x19", "x1A", "x1B", "x1C", "x1D", "x1E", "x1F",
       " ", "!", "\"", "#", "$", "%", "&", "'",
       "(", ")", "*", "+", ",", "-", ".", "/",
       "0", "1", "2", "3", "4", "5", "6", "7",
       "8", "9", ":", ";", "<", "=", ">", "?",
       "@", "A", "B", "C", "D", "E", "F", "G",
       "H", "I", "J", "K", "L", "M", "N", "O",
       "P", "Q", "R", "S", "T", "U", "V", "W",
       "X", "Y", "Z", "[", "\\", "]", "^", "_",
       "x60", "a", "b", "c", "d", "e", "f", "g",
       "h", "i", "j", "k", "l", "m", "n", "o",
       "p", "q", "r", "s", "t", "u", "v", "w",
       "x", "y", "z", "{", "|", "}", "~", "x7F",
       "x80", "x81", "x82", "x83", "x84", "x85", "x86", "x87",
       "x88", "x89", "x8A", "x8B", "x8C", "x8D", "x8E", "x8F",
       "x90", "x91", "x92", "x93", "x94", "x95", "x96", "x97",
       "x98", "x99", "x9A", "x9B", "x9C", "x9D", "x9E", "x9F",
       "xA0", "xA1", "xA2", "xA3", "xA4", "xA5", "xA6", "xA7",
       "xA8", "xA9", "xAA", "xAB", "xAC", "xAD", "xAE", "xAF",
       "xB0", "xB1", "xB2", "xB3", "xB4", "xB5", "xB6", "xB7",
       "xB8", "xB9", "xBA", "xBB", "xBC", "xBD", "xBE", "xBF",
       "xC0", "xC1", "xC2", "xC3", "xC4", "xC5", "xC6", "xC7",
       "xC8", "xC9", "xCA", "xCB", "xCC", "xCD", "xCE", "xCF",
       "xD0", "xD1", "xD2", "xD3", "xD4", "xD5", "xD6", "xD7",
       "xD8", "xD9", "xDA", "xDB", "xDC", "xDD", "xDE", "xDF",
       "xE0", "xE1", "xE2", "xE3", "xE4", "xE5", "xE6", "xE7",
       "xE8", "xE9", "xEA", "xEB", "xEC", "xED", "xEE", "xEF",
       "xF0", "xF1", "xF2", "xF3", "xF4", "xF5", "xF6", "xF7",
       "xF8", "xF9", "xFA", "xFB", "xFC", "xFD", "xFE", "xFF"
    >>

chr(n) == ByteNames[n + 1]

\* the value of each byte name
Ords ==
    [c \in {ByteNames[n] : n \in DOMAIN ByteNames} |->
        (CHOOSE n \in DOMAIN ByteNames : ByteNames[n] = c) - 1]

ord(c) == Ords[c]

ords(s) == [i \in DOMAIN s |-> ord(s[i])]

chrs(bytes) == [i \in DOMAIN bytes |-> chr(bytes[i])]

\* the number of bytes of the well-formed UTF-8 sequence at the head of
\* bytes (0 when there is none) as core::str::from_utf8 accepts them
utf8_width(bytes) ==
    LET n  == Len(bytes)
        b0 == bytes[1]
        c(i, lo, hi) == n >= i /\ bytes[i] >= lo /\ bytes[i] <= hi
    IN  IF n = 0 THEN 0
        ELSE IF b0 < 128 THEN 1
        ELSE IF b0 >= 194 /\ b0 <= 223 /\ c(2, 128, 191) THEN 2
        ELSE IF b0 = 224 /\ c(2, 160, 191) /\ c(3, 128, 191) THEN 3
        ELSE IF b0 >= 225 /\ b0 <= 236 /\ c(2, 128, 191) /\ c(3, 128, 191) THEN 3
        ELSE IF b0 = 237 /\ c(2, 128, 159) /\ c(3, 128, 191) THEN 3
        ELSE IF b0 >= 238 /\ b0 <= 239 /\ c(2, 128, 191) /\ c(3, 128, 191) THEN 3
        ELSE IF b0 = 240 /\ c(2, 144, 191) /\ c(3, 128, 191) /\ c(4, 128, 191) THEN 4
        ELSE IF b0 >= 241 /\ b0 <= 243 /\ c(2, 128, 191) /\ c(3, 128, 191)
                /\ c(4, 128, 191) THEN 4
        ELSE IF b0 = 244 /\ c(2, 128, 143) /\ c(3, 128, 191) /\ c(4, 128, 191) THEN 4
        ELSE 0

\* the bytes an ill-formed head takes up: the longest prefix of it that
\* could still start a well-formed sequence, and one byte at least
utf8_invalid_len(bytes) ==
    LET n  == Len(bytes)
        b0 == bytes[1]
        c(i, lo, hi) == n >= i /\ bytes[i] >= lo /\ bytes[i] <= hi
        lo2 == IF b0 = 224 THEN 160 ELSE IF b0 = 240 THEN 144 ELSE 128
        hi2 == IF b0 = 237 THEN 159 ELSE IF b0 = 244 THEN 143 ELSE 191
    IN  IF b0 < 194 \/ b0 > 244 THEN 1
        ELSE IF ~c(2, lo2, hi2) THEN 1
        ELSE IF b0 <= 223 THEN 1
        ELSE IF ~c(3, 128, 191) THEN 2
        ELSE IF b0 <= 239 THEN 2
        ELSE 3

SubSeqFrom(s, i) == SubSeq(s, i, Len(s))

RECURSIVE utf8_valid(_)
utf8_valid(bytes) ==
    IF bytes = <<>> THEN TRUE
    ELSE LET w == utf8_width(bytes)
         IN  w > 0 /\ utf8_valid(SubSeqFrom(bytes, w + 1))

\* String::from_utf8
String_from_utf8(bytes) ==
    IF utf8_valid(bytes) THEN Ok(chrs(bytes)) ELSE Err("invalid utf8")

\* U+FFFD REPLACEMENT CHARACTER in UTF-8
REPLACEMENT == <<239, 191, 189>>

RECURSIVE utf8_lossy(_)
utf8_lossy(bytes) ==
    IF bytes = <<>> THEN <<>>
    ELSE LET w == utf8_width(bytes)
         IN  IF w > 0
             THEN SubSeq(bytes, 1, w) \o utf8_lossy(SubSeqFrom(bytes, w + 1))
             ELSE REPLACEMENT
                    \o utf8_lossy(SubSeqFrom(bytes, utf8_invalid_len(bytes) + 1))

\* String::from_utf8_lossy
String_from_utf8_lossy(bytes) == chrs(utf8_lossy(bytes))

\* char::from_u32: no surrogate and nothing beyond U+10FFFF
char_from_u32(n) ==
    IF n < 55296 \/ (n >= 57344 /\ n <= 1114111) THEN Some(n) ELSE None

\* String::push(char): the UTF-8 encoding of a code point
encode_utf8(cp) ==
    IF cp < 128 THEN <<cp>>
    ELSE IF cp < 2048 THEN <<192 + (cp \div 64), 128 + (cp % 64)>>
    ELSE IF cp < 65536
         THEN <<224 + (cp \div 4096), 128 + ((cp \div 64) % 64), 128 + (cp % 64)>>
    ELSE <<240 + (cp \div 262144), 128 + ((cp \div 4096) % 64),
           128 + ((cp \div 64) % 64), 128 + (cp % 64)>>

push_char(out, cp) == out \o chrs(encode_utf8(cp))

(***************************************************************************)
(* base64dec_all, base64dec_all_str (utils/decoders.rs)                    *)
(***************************************************************************)
\* the six bits of a character: -1 for '=', -2 for a character outside the
\* alphabet
base64_digit(c) ==
    LET b == ord(c)
    IN  IF b >= 48 /\ b <= 57 THEN 52 + b - 48
        ELSE IF b >= 65 /\ b <= 90 THEN b - 65
        ELSE IF b >= 97 /\ b <= 122 THEN 26 + b - 97
        ELSE IF c \in {"+", "-"} THEN 62
        ELSE IF c \in {"/", "_"} THEN 63
        ELSE IF c = "=" THEN -1
        ELSE -2

\* the as u8 cast
as_u8(v) == v % 256

RECURSIVE base64_loop(_, _)
RECURSIVE base64_char(_, _, _)
RECURSIVE base64_group(_, _)
\* the for loop: st holds i, v, res and pad; v is reset every four
\* characters and stays below 2^24, so the u32 never overflows
base64_loop(st, input) ==
    IF input = <<>> THEN Ok(st)
    ELSE base64_char(st, base64_digit(Head(input)), Tail(input))

\* the match on the character, d being its six bits, and v <<= 6; v |= n;
\* i -= 1
base64_char(st, d, rest) ==
    IF d = -2 THEN Err("invalid baase64 character")
    ELSE IF d = -1 /\ (st.pad >= 2 \/ st.i >= 3) THEN Err("bad padding")
    ELSE base64_group([st EXCEPT !.pad = IF d = -1 THEN @ + 1 ELSE @,
                                 !.v = (@ * 64) + (IF d = -1 THEN 0 ELSE d),
                                 !.i = @ - 1],
                      rest)

\* if i == 0: the bytes of a full group are pushed
base64_group(st, rest) ==
    IF st.i = 0
    THEN base64_loop(
           [i |-> 4, v |-> 0, pad |-> st.pad,
            res |-> st.res \o <<as_u8(st.v \div 65536)>>
                \o (IF st.pad < 2 THEN <<as_u8(st.v \div 256)>> ELSE <<>>)
                \o (IF st.pad < 1 THEN <<as_u8(st.v)>> ELSE <<>>)],
           rest)
    ELSE base64_loop(st, rest)

\* the checks and pushes after the loop
base64_end(r) ==
    IF ~r.ok THEN r
    ELSE IF r.value.i = 3 \/ (r.value.pad > 0 /\ r.value.i /= 4)
    THEN Err("bad padding")
    ELSE IF r.value.i = 1
    THEN Ok(r.value.res \o <<as_u8(r.value.v \div 1024), as_u8(r.value.v \div 4)>>)
    ELSE IF r.value.i = 2 THEN Ok(r.value.res \o <<as_u8(r.value.v \div 16)>>)
    ELSE Ok(r.value.res)

base64dec_all(input) ==
    IF Len(input) % 4 = 1 THEN Err("bad padding")
    ELSE base64_end(base64_loop([i |-> 4, v |-> 0, res |-> <<>>, pad |-> 0],
                                input))

\* String::from_utf8 on what base64dec_all gave
utf8_of(r) == IF r.ok THEN String_from_utf8(r.value) ELSE r

base64dec_all_str(input) == utf8_of(base64dec_all(input))

(***************************************************************************)
(* DecodingResult and the decoders of utils/decoders.rs                    *)
(***************************************************************************)
NoChange == [changed |-> FALSE]

Changed(x) == [changed |-> TRUE, value |-> x]

\* from_hex_digit / is_hex_char: the value of a hexadecimal digit, or -1
from_hex_digit(c) ==
    LET b == ord(c)
    IN  IF b >= 48 /\ b <= 57 THEN b - 48
        ELSE IF b >= 65 /\ b <= 70 THEN b - 65 + 10
        ELSE IF b >= 97 /\ b <= 102 THEN b - 97 + 10
        ELSE -1

is_hex_char(c) == from_hex_digit(c) >= 0

\* every byte, the hexadecimal digits and the decimal digits
AllChars == {ByteNames[n] : n \in DOMAIN ByteNames}

HexChars == {c \in AllChars : is_hex_char(c)}

DecimalChars == {c \in AllChars : ord(c) >= 48 /\ ord(c) <= 57}

\* the index of the first character of s that is one of chars, or 0
RECURSIVE find_from(_, _, _)
find_from(s, i, chars) ==
    IF i > Len(s) THEN 0
    ELSE IF s[i] \in chars THEN i
    ELSE find_from(s, i + 1, chars)

find_start(s) == find_from(s, 1, {"+", "%"})

RECURSIVE urldecode_loop(_, _, _, _)
\* the inner loop of urldecode_bytes on the byte b, bytes being the iterator
urldecode_loop(out, changed, b, bytes) ==
    LET next(o, ch, bs) ==
            IF bs = <<>> THEN [out |-> o, changed |-> ch]
            ELSE urldecode_loop(o, ch, Head(bs), Tail(bs))
    IN  IF b = "+" THEN next(out \o <<32>>, TRUE, bytes)
        ELSE IF b = "%"
        THEN IF bytes = <<>> THEN next(out \o <<ord(b)>>, changed, bytes)
             ELSE LET h == Head(bytes)
                      hv == from_hex_digit(h)
                      after_h == Tail(bytes)
                  IN  IF hv < 0
                      THEN urldecode_loop(out \o <<ord(b)>>, changed, h, after_h)
                      ELSE IF after_h = <<>>
                      THEN next(out \o <<ord(b), ord(h)>>, changed, after_h)
                      ELSE LET l == Head(after_h)
                               lv == from_hex_digit(l)
                           IN  IF lv >= 0
                               THEN next(out \o <<hv * 16 + lv>>, TRUE,
                                         Tail(after_h))
                               ELSE urldecode_loop(out \o <<ord(b), ord(h)>>,
                                                   changed, l, Tail(after_h))
        ELSE next(out \o <<ord(b)>>, changed, bytes)

urldecode_bytes(input) ==
    LET p == find_start(input)
    IN  IF p = 0 THEN NoChange
        ELSE LET prefix == SubSeq(input, 1, p - 1)
                 rest == SubSeqFrom(input, p)
                 r == urldecode_loop(ords(prefix), FALSE, Head(rest), Tail(rest))
             IN  IF r.changed THEN Changed(r.out) ELSE NoChange

urldecode_str(input) ==
    LET r == urldecode_bytes(input)
    IN  IF r.changed THEN Changed(String_from_utf8_lossy(r.value)) ELSE NoChange

(***************************************************************************)
(* u32 values, kept as two 16-bit halves                                   *)
(***************************************************************************)
U32(hi, lo) == [hi |-> hi, lo |-> lo]

RECURSIVE from_str_radix_from(_, _, _)
\* the digits left to right; None on overflow of the u32
from_str_radix_from(acc, digits, radix) ==
    IF digits = <<>> THEN Some(acc)
    ELSE LET d  == IF radix = 16 THEN from_hex_digit(Head(digits))
                   ELSE ord(Head(digits)) - 48
             lo == acc.lo * radix + d
             hi == acc.hi * radix + (lo \div 65536)
         IN  IF hi >= 65536 THEN None
             ELSE from_str_radix_from(U32(hi, lo % 65536), Tail(digits), radix)

\* u32::from_str_radix on a run of digits: the empty run is an error
u32_from_str_radix(digits, radix) ==
    IF digits = <<>> THEN None
    ELSE from_str_radix_from(U32(0, 0), digits, radix)

\* char::from_u32 on the two halves
char_from_U32(n) ==
    IF n.hi > 16 THEN None ELSE char_from_u32(n.hi * 65536 + n.lo)

\* from_hex and from_decimal
from_hex(input) ==
    LET a == u32_from_str_radix(input, 16)
    IN  IF IsSome(a) THEN char_from_U32(Unwrap(a)) ELSE None

from_decimal(input) ==
    LET a == u32_from_str_radix(input, 10)
    IN  IF IsSome(a) THEN char_from_U32(Unwrap(a)) ELSE None

(***************************************************************************)
(* nom parsers: a result is None on error and Some([rest, value])          *)
(***************************************************************************)
Parsed(rest, value) == Some([rest |-> rest, value |-> value])

\* take_while: the length of the longest prefix made of chars
RECURSIVE span(_, _)
span(i, chars) ==
    IF i = <<>> \/ Head(i) \notin chars THEN 0 ELSE 1 + span(Tail(i), chars)

\* anychar: a whole character, here the bytes of one UTF-8 sequence
anychar(i) ==
    IF i = <<>> THEN None
    ELSE LET w == utf8_width(ords(i))
         IN  Parsed(SubSeqFrom(i, w + 1), SubSeq(i, 1, w))

\* str::to_lowercase on ASCII letters
ascii_lowercase(s) ==
    [k \in DOMAIN s |->
        IF ord(s[k]) >= 65 /\ ord(s[k]) <= 90 THEN chr(ord(s[k]) + 32) ELSE s[k]]

\* htmlentities::get_entity
get_entity(i) ==
    LET name == ascii_lowercase(i)
    IN  CASE name = <<"q", "u", "o", "t">> -> Some(34)
          [] name = <<"a", "m", "p">> -> Some(38)
          [] name = <<"l", "t">> -> Some(60)
          [] name = <<"g", "t">> -> Some(62)
          [] name = <<"n", "b", "s", "p">> -> Some(160)
          [] OTHER -> None

\* map_res / map_opt on the first n characters of i, c being their result
taken(i, n, c) ==
    IF c = None THEN None ELSE Parsed(SubSeqFrom(i, n + 1), Unwrap(c))

\* map_res(take_while(is_hex_char), from_hex), n being the digits taken
hex_digits_char(i, n) == taken(i, n, from_hex(SubSeq(i, 1, n)))

\* htmlentities::hex_entity, xs being the length of the run is_a("xX") takes
hex_entity_after(i, xs) ==
    IF xs = 0 THEN None
    ELSE hex_digits_char(SubSeqFrom(i, xs + 1),
                         span(SubSeqFrom(i, xs + 1), HexChars))

hex_entity(i) == hex_entity_after(i, span(i, {"x", "X"}))

\* htmlentities::decimal_entity
decimal_digits_char(i, n) == taken(i, n, from_decimal(SubSeq(i, 1, n)))

decimal_entity(i) == decimal_digits_char(i, span(i, DecimalChars))

\* alt((first, second)): the first result unless it is an error
alt(first, second) == IF IsSome(first) THEN first ELSE second

\* htmlentities::num_entity
num_entity(i) ==
    IF i = <<>> \/ Head(i) /= "#" THEN None
    ELSE alt(hex_entity(Tail(i)), decimal_entity(Tail(i)))

\* htmlentities::named_entity
named_entity_of(i, n) == taken(i, n, get_entity(SubSeq(i, 1, n)))

named_entity(i) == named_entity_of(i, span(i, AllChars \ {";"}))

\* char(c) after a parser that gave entity
then_char(entity, c) ==
    IF entity = None THEN None
    ELSE IF Unwrap(entity).rest /= <<>> /\ Head(Unwrap(entity).rest) = c
    THEN Parsed(Tail(Unwrap(entity).rest), Unwrap(entity).value)
    ELSE None

\* htmlentities::parse_char
parse_char(i) ==
    IF i = <<>> \/ Head(i) /= "&" THEN None
    ELSE then_char(alt(num_entity(Tail(i)), named_entity(Tail(i))), ";")

RECURSIVE htmlentities_loop(_, _, _)
RECURSIVE htmlentities_push(_, _, _, _, _)
\* the iterator of alt((parse_char, anychar)) and the loop that pushes
htmlentities_loop(out, changed, i) ==
    IF i = <<>> THEN [out |-> out, changed |-> changed]
    ELSE htmlentities_push(out, changed, i, parse_char(i), anychar(i))

htmlentities_push(out, changed, i, ent, any) ==
    IF IsSome(ent)
    THEN htmlentities_loop(push_char(out, Unwrap(ent).value), TRUE,
                           Unwrap(ent).rest)
    ELSE htmlentities_loop(out \o Unwrap(any).value, changed, Unwrap(any).rest)

\* what a decoder returns for the out and changed its loop ended with
decoding_result(r) == IF r.changed THEN Changed(r.out) ELSE NoChange

\* htmlentities, p being the index of the first '&'
htmlentities_at(input, p) ==
    IF p = 0 THEN NoChange
    ELSE decoding_result(htmlentities_loop(SubSeq(input, 1, p - 1), FALSE,
                                           SubSeqFrom(input, p)))

htmlentities(input) == htmlentities_at(input, find_from(input, 1, {"&"}))

(***************************************************************************)
(* parse_unicode (utils/decoders.rs): \uXXXX, \XXXX and \UXXXXXXXX         *)
(***************************************************************************)
BACKSLASH == "\\"

\* u32 subtraction and addition: the wrapped value and whether it overflowed
u32_sub(a, b) ==
    LET lo == a.lo - b.lo
        borrow == IF lo < 0 THEN 1 ELSE 0
        hi == a.hi - b.hi - borrow
    IN  [value |-> U32((hi + 65536) % 65536, (lo + 65536) % 65536),
         overflow |-> hi < 0]

u32_add(a, b) ==
    LET lo == a.lo + b.lo
        hi == a.hi + b.hi + (lo \div 65536)
    IN  [value |-> U32(hi % 65536, lo % 65536), overflow |-> hi >= 65536]

\* map_res on the first n characters of i, o being the u32 read or None
taken_u32(i, n, o) ==
    IF o = None THEN None ELSE Parsed(SubSeqFrom(i, n + 1), Unwrap(o))

\* take_while_m_n(n, n, is_hex_char) and u32::from_str_radix(x, 16)
hex_exactly(n, i) ==
    IF span(i, HexChars) >= n
    THEN taken_u32(i, n, u32_from_str_radix(SubSeq(i, 1, n), 16))
    ELSE None

\* the rest of the input after the tag t, or None
after_tag(t, i) ==
    IF Len(i) >= Len(t) /\ SubSeq(i, 1, Len(t)) = t
    THEN Some(SubSeqFrom(i, Len(t) + 1)) ELSE None

\* parse_unicode::parse_lower
parse_lower_after(rest) ==
    IF rest = None THEN None ELSE hex_exactly(4, Unwrap(rest))

parse_lower(i) == parse_lower_after(after_tag(<<BACKSLASH, "u">>, i))

\* opt(char(' ')) after a parser that gave r
opt_space(r) ==
    IF r = None THEN None
    ELSE IF Unwrap(r).rest /= <<>> /\ Head(Unwrap(r).rest) = " "
    THEN Parsed(Tail(Unwrap(r).rest), Unwrap(r).value)
    ELSE r

\* map_res(take_while(is_hex_char), from_str_radix), n being the digits taken
hex_digits_u32(i, n) == taken_u32(i, n, u32_from_str_radix(SubSeq(i, 1, n), 16))

\* parse_unicode::parse_css
parse_css_after(rest) ==
    IF rest = None THEN None
    ELSE opt_space(hex_digits_u32(Unwrap(rest), span(Unwrap(rest), HexChars)))

parse_css(i) == parse_css_after(after_tag(<<BACKSLASH>>, i))

\* map_res(take_while_m_n(8, 8, is_hex_char), from_hex)
hex8_char(i) ==
    IF span(i, HexChars) >= 8 THEN taken(i, 8, from_hex(SubSeq(i, 1, 8)))
    ELSE None

\* parse_unicode::parse_upper
parse_upper_after(rest) ==
    IF rest = None THEN None ELSE hex8_char(Unwrap(rest))

parse_upper(i) == parse_upper_after(after_tag(<<BACKSLASH, "U">>, i))

\* alt((parse_lower, parse_css))
lower_or_css(i) == alt(parse_lower(i), parse_css(i))

is_surrogate(n) == n.hi = 0 /\ n.lo >= 55296 /\ n.lo <= 57343

\* 0x10000 + (n1 - 0xd800) * 0x400 on a surrogate n1
surrogate_high(n1) ==
    U32((65536 + (n1.lo - 55296) * 1024) \div 65536,
        (65536 + (n1.lo - 55296) * 1024) % 65536)

\* high + low, low being n2 - 0xdc00
surrogate_sum(high, low) ==
    [value |-> u32_add(high, low.value).value,
     overflow |-> low.overflow \/ u32_add(high, low.value).overflow]

\* 0x10000 + (n1 - 0xd800) * 0x400 + (n2 - 0xdc00) on u32
surrogate_pair(n1, n2) ==
    surrogate_sum(surrogate_high(n1), u32_sub(n2, U32(0, 56320)))

\* map_opt(success(n), char::from_u32), the input left being rest
char_of(rest, c) == IF c = None THEN None ELSE Parsed(rest, Unwrap(c))

\* the second half of parse_unicode::utf16: x is the pair computed; an
\* arithmetic overflow panics in a build with overflow checks and wraps in
\* a build without
utf16_pair(rest, x, overflow_checks) ==
    IF x.overflow /\ overflow_checks THEN Some([panic |-> TRUE])
    ELSE char_of(rest, char_from_U32(x.value))

utf16_second(n1, p2, overflow_checks) ==
    IF p2 = None THEN None
    ELSE utf16_pair(Unwrap(p2).rest, surrogate_pair(n1, Unwrap(p2).value),
                    overflow_checks)

utf16_first(p1, overflow_checks) ==
    IF p1 = None THEN None
    ELSE IF is_surrogate(Unwrap(p1).value)
    THEN utf16_second(Unwrap(p1).value, lower_or_css(Unwrap(p1).rest),
                      overflow_checks)
    ELSE char_of(Unwrap(p1).rest, char_from_U32(Unwrap(p1).value))

\* parse_unicode::utf16
utf16(i, overflow_checks) == utf16_first(lower_or_css(i), overflow_checks)

Panicked(r) == IsSome(r) /\ "panic" \in DOMAIN Unwrap(r)

RECURSIVE parse_unicode_loop(_, _, _, _)
RECURSIVE parse_unicode_push(_, _, _, _, _)
\* the iterator of parseone = alt((parse_upper, utf16, anychar))
parse_unicode_loop(out, changed, i, overflow_checks) ==
    IF i = <<>> THEN [out |-> out, changed |-> changed, panic |-> FALSE]
    ELSE parse_unicode_push(out, changed, overflow_checks,
                            alt(parse_upper(i), utf16(i, overflow_checks)),
                            anychar(i))

parse_unicode_push(out, changed, overflow_checks, one, any) ==
    IF Panicked(one) THEN [out |-> out, changed |-> changed, panic |-> TRUE]
    ELSE IF IsSome(one)
    THEN parse_unicode_loop(push_char(out, Unwrap(one).value), TRUE,
                            Unwrap(one).rest, overflow_checks)
    ELSE parse_unicode_loop(out \o Unwrap(any).value, changed, Unwrap(any).rest,
                            overflow_checks)

Panic == [changed |-> FALSE, panic |-> TRUE]

\* the result of parse_unicode for what its loop ended with
unicode_result(r) == IF r.panic THEN Panic ELSE decoding_result(r)

\* parse_unicode, p being the index of the first backslash
parse_unicode_at(input, p, overflow_checks) ==
    IF p = 0 THEN NoChange
    ELSE unicode_result(parse_unicode_loop(SubSeq(input, 1, p - 1), FALSE,
                                           SubSeqFrom(input, p), overflow_checks))

parse_unicode(input, overflow_checks) ==
    parse_unicode_at(input, find_from(input, 1, {BACKSLASH}), overflow_checks)

(***************************************************************************)
(* RequestField (requestfields.rs).  The locations kept next to a value    *)
(* play no part in what add stores under which key and are left out.       *)
(***************************************************************************)
Transformations ==
    {"Base64Decode", "UrlDecode", "HtmlEntitiesDecode", "UnicodeDecode"}

\* RequestField::new
RequestField_new(decoding) == [decoding |-> decoding, fields |-> <<>>]

\* Transformation::Base64Decode: if let Ok(n) = base64dec_all_str(&v)
add_base64(st, n) ==
    IF n.ok
    THEN [st EXCEPT !.v = n.value, !.changed = TRUE, !.replace_parameter = FALSE]
    ELSE st

\* the other transformations: if let DecodingResult::Changed(ns) = ..
add_decoded(st, ns) ==
    IF "panic" \in DOMAIN ns THEN [st EXCEPT !.panic = TRUE]
    ELSE IF ns.changed THEN [st EXCEPT !.v = ns.value, !.changed = TRUE]
    ELSE st

\* one turn of the loop over self.decoding in RequestField::add
add_transform(st, tr, overflow_checks) ==
    IF st.panic THEN st
    ELSE CASE tr = "Base64Decode" -> add_base64(st, base64dec_all_str(st.v))
           [] tr = "UrlDecode" -> add_decoded(st, urldecode_str(st.v))
           [] tr = "HtmlEntitiesDecode" -> add_decoded(st, htmlentities(st.v))
           [] tr = "UnicodeDecode" ->
                add_decoded(st, parse_unicode(st.v, overflow_checks))

RECURSIVE add_transforms(_, _, _)
add_transforms(st, decoding, overflow_checks) ==
    IF decoding = <<>> THEN st
    ELSE add_transforms(add_transform(st, Head(decoding), overflow_checks),
                        Tail(decoding), overflow_checks)

\* if changed { Some(v) } else { None }, next to replace_parameter
change_of(st) ==
    [replace_parameter |-> st.replace_parameter,
     change |-> IF st.changed THEN Some(st.v) ELSE None,
     panic |-> st.panic]

\* replace_parameter and change as RequestField::add computes them
add_change(decoding, value, overflow_checks) ==
    change_of(add_transforms([v |-> value, changed |-> FALSE,
                              replace_parameter |-> TRUE, panic |-> FALSE],
                             IF value = <<>> THEN <<>> ELSE decoding,
                             overflow_checks))

\* key.clone() + ":decoded"
decoded_key(key) == key \o <<":", "d", "e", "c", "o", "d", "e", "d">>

\* every changed value stored next to the raw one
add_match_both(fields, key, value, replace_parameter, change) ==
    IF change = None THEN base_add(fields, key, value)
    ELSE base_add(base_add(fields, decoded_key(key), Unwrap(change)), key, value)

\* the match (replace_parameter, change) at the end of RequestField::add
add_match(fields, key, value, replace_parameter, change) ==
    IF change = None THEN base_add(fields, key, value)
    ELSE IF ~replace_parameter
    THEN base_add(base_add(fields, decoded_key(key), Unwrap(change)), key, value)
    ELSE base_add(fields, key, Unwrap(change))

(***************************************************************************)
(* The values and keys added, and the decoding lists of a profile.        *)
(***************************************************************************)
MaxAdds == 2

\* convert_entry pushes the configured transformations in its default order
DecodingLists ==
    {SelectSeq(<<"Base64Decode", "UrlDecode", "HtmlEntitiesDecode",
                 "UnicodeDecode">>, LAMBDA t : t \in enabled) :
        enabled \in SUBSET Transformations}

FieldKeys == {<<"a">>, <<"b">>}

FieldValues ==
    { <<>>,
      <<"h", "i", "!">>,
      <<"Y", "Q", "=", "=">>,
      <<"a", "b">>,
      <<"Y", "S", "t", "i">>,
      <<"a", "+", "b">>,
      <<"&", "l", "t", ";">>,
      <<"%", "2", "6", "l", "t", ";">>,
      <<BACKSLASH, "u", "0", "0", "4", "1">>,
      <<BACKSLASH, "u", "d", "8", "0", "0", BACKSLASH, "4", "1">> }

InitField ==
    /\ AclIdle
    /\ MergeIdle
    /\ PipeIdle
    /\ EntryIdle
    /\ ReloadIdle
    /\ StrongerIdle
    /\ FilterIdle
    /\ SectionIdle
    /\ TagsIdle
    /\ FlowIdle
    /\ MaskIdle
    /\ CreloadIdle
    /\ StreamIdle
    /\ rfield \in {RequestField_new(decoding) : decoding \in DecodingLists}
    /\ rf_checks \in BOOLEAN
    /\ rf_added = <<>>
    /\ rf_panicked = FALSE

\* the RequestField after add, c being what add computed from the value
added(rf, key, value, c) ==
    IF c.panic THEN rf
    ELSE [rf EXCEPT !.fields =
            add_match(@, key, value, c.replace_parameter, c.change)]

\* RequestField::add, c being what it computes from the value
AddWith(key, value, c) ==
    /\ rf_added' = Append(rf_added, [key |-> key, value |-> value,
                                     fields |-> rfield.fields])
    /\ rf_panicked' = c.panic
    /\ rfield' = added(rfield, key, value, c)

\* RequestField::add(key, ds, value)
Add ==
    /\ ~rf_panicked
    /\ Len(rf_added) < MaxAdds
    /\ \E key \in FieldKeys, value \in FieldValues :
          AddWith(key, value, add_change(rfield.decoding, value, rf_checks))
    /\ UNCHANGED rf_checks
    /\ UNCHANGED nonFieldVars

NextField == Add

SpecField == InitField /\ [][NextField]_vars

\* the last add call, and whether it returned
LastAdd == rf_added[Len(rf_added)]

AddReturned == rf_added /= <<>> /\ ~rf_panicked

\* what the last add call computed from the configured transformations
LastChange == add_change(rfield.decoding, LastAdd.value, rf_checks)

\* Base64 is configured and decodes the raw value
Base64Succeeds ==
    /\ LastAdd.value /= <<>>
    /\ \E i \in DOMAIN rfield.decoding : rfield.decoding[i] = "Base64Decode"
    /\ base64dec_all_str(LastAdd.value).ok

\* the key holds the value: alone, or after what the key held before
Holds(last, key, value) ==
    /\ key \in DOMAIN rfield.fields
    /\ rfield.fields[key] =
          IF key \in DOMAIN last.fields
          THEN last.fields[key] \o <<" ">> \o value
          ELSE value

\* the last add call left the key as it was
Untouched(last, key) ==
    IF key \in DOMAIN last.fields
    THEN key \in DOMAIN rfield.fields /\ rfield.fields[key] = last.fields[key]
    ELSE key \notin DOMAIN rfield.fields

\* every key but those of keys is as it was before the last add call
OnlyWritten(last, keys) ==
    \A other \in (DOMAIN rfield.fields \cup DOMAIN last.fields) \ keys :
        Untouched(last, other)

\* the claim as stated, for the last add call and the change it computed
DecodedNextToRaw(last, change) ==
    IF IsSome(change)
    THEN /\ Holds(last, decoded_key(last.key), Unwrap(change))
         /\ Holds(last, last.key, last.value)
    ELSE /\ Holds(last, last.key, last.value)
         /\ OnlyWritten(last, {last.key})

\* C20 as stated: when a configured transformation changes the value added
\* under k, the store holds the decoded value under k:decoded and the raw
\* value under k; when none changes it, only k is written.
C20_DecodedNextToRaw ==
    AddReturned => DecodedNextToRaw(LastAdd, LastChange.change)

\* the amended claim, for the last add call, the change it computed and
\* whether Base64 decoded the raw value
DecodedNextToRawForBase64(last, change, base64) ==
    IF base64
    THEN /\ Holds(last, decoded_key(last.key), Unwrap(change))
         /\ Holds(last, last.key, last.value)
         /\ OnlyWritten(last, {last.key, decoded_key(last.key)})
    ELSE /\ Holds(last, last.key,
                  IF IsSome(change) THEN Unwrap(change) ELSE last.value)
         /\ OnlyWritten(last, {last.key})

\* C20: when Base64 decoding of the value added under k succeeds, the store
\* holds the decoded value under k:decoded and the raw value under k; when
\* it does not and another configured transformation changes the value,
\* only k is written and holds the decoded value; when no configured
\* transformation changes the value, only k is written and holds the raw
\* value.
C20_DecodedNextToRawForBase64 ==
    AddReturned =>
        DecodedNextToRawForBase64(LastAdd, LastChange.change, Base64Succeeds)

\* a value that only URL decoding changes was added to a key that held a
\* value already, and a Base64 value was added before it
C20_Witness ==
    /\ AddReturned
    /\ Len(rf_added) = 2
    /\ ~Base64Succeeds
    /\ IsSome(LastChange.change)
    /\ LastAdd.key \in DOMAIN LastAdd.fields
    /\ decoded_key(LastAdd.key) \in DOMAIN LastAdd.fields

(***************************************************************************)
(* Content-filter section check (contentfilter.rs, section_check).  Names  *)
(* and values are sequences of characters; a regex is given by the set of  *)
(* strings it accepts.                                                     *)
(***************************************************************************)
MaxParams == 2

\* ContentFilterEntryMatch
ContentFilterEntryMatch(reg, restrict, exclusions) ==
    [reg |-> reg, restrict |-> restrict, mask |-> FALSE,
     exclusions |-> exclusions]

\* ContentFilterSection; an element of regex is the name regex and its entry
ContentFilterSection(max_count, max_length, names, regex) ==
    [max_count |-> max_count, max_length |-> max_length, names |-> names,
     regex |-> regex]

\* Tags::has_intersection
has_intersection(tgs, other) == \E t \in other : t \in tgs

\* str::ends_with
ends_with(s, suffix) ==
    /\ Len(s) >= Len(suffix)
    /\ SubSeq(s, Len(s) - Len(suffix) + 1, Len(s)) = suffix

\* char::is_ascii_alphanumeric
is_ascii_alphanumeric(c) ==
    ord(c) \in (48 .. 57) \cup (65 .. 90) \cup (97 .. 122)

\* Location::from_section, from_name, from_value
Location_from_section(idx) == <<idx>>
Location_from_name(idx, name) ==
    IF idx = "Path" THEN <<"Uri">> ELSE <<idx, name>>
Location_from_value(idx, name, value) ==
    IF idx = "Path" THEN <<"Uri">> ELSE <<idx, name, value>>

\* BlockReason::too_many_entries, entry_too_large, restricted
BlockReason_at(id, initiator, location, action) ==
    [id |-> id, initiator |-> initiator, location |-> location,
     action |-> action]

\* Omitted, for the section that is checked
Omitted(entries, exclusions) == [entries |-> entries, exclusions |-> exclusions]

\* the closure check_entry of section_check with the test of the excluded
\* tags placed before the test of restrict
section_check_entry_exclusions_first(omit, cfid, action, tgs, idx, name, value, name_entry) ==
    LET matched == IsSome(name_entry.reg) /\ value \in Unwrap(name_entry.reg)
    IN  IF matched \/ has_intersection(tgs, name_entry.exclusions)
        THEN Ok([omit EXCEPT !.entries = @ \cup {name}])
        ELSE IF name_entry.restrict
        THEN Err(BlockReason_at(cfid,
                     Restriction("restricted", value, name_entry.reg),
                     Location_from_value(idx, name, value), action))
        ELSE Ok(omit)

\* the closure check_entry of section_check: Ok(omit) or Err(BlockReason)
section_check_entry(omit, cfid, action, tgs, idx, name, value, name_entry) ==
    LET matched == IsSome(name_entry.reg) /\ value \in Unwrap(name_entry.reg)
    IN  IF matched
        THEN Ok([omit EXCEPT !.entries = @ \cup {name}])
        ELSE IF name_entry.restrict
        THEN Err(BlockReason_at(cfid,
                     Restriction("restricted", value, name_entry.reg),
                     Location_from_value(idx, name, value), action))
        ELSE IF has_intersection(tgs, name_entry.exclusions)
        THEN Ok([omit EXCEPT !.entries = @ \cup {name}])
        ELSE IF name_entry.exclusions /= {}
        THEN Ok([omit EXCEPT !.exclusions =
                    (name :> ((IF name \in DOMAIN @ THEN @[name] ELSE {})
                                 \cup name_entry.exclusions)) @@ @])
        ELSE Ok(omit)

RECURSIVE section_check_regex(_, _, _, _, _, _, _, _)
RECURSIVE section_check_regex_next(_, _, _, _, _, _, _, _)
\* the loop over the regex rules whose regex matches the name
section_check_regex(omit, cfid, action, tgs, idx, name, value, rules) ==
    IF rules = <<>> THEN Ok(omit)
    ELSE IF name \notin Head(rules).re
    THEN section_check_regex(omit, cfid, action, tgs, idx, name, value,
                             Tail(rules))
    ELSE section_check_regex_next(
             section_check_entry(omit, cfid, action, tgs, idx, name, value,
                                 Head(rules).entry),
             cfid, action, tgs, idx, name, value, Tail(rules))

\* check_entry(entry)? inside the loop: r is what check_entry returned
section_check_regex_next(r, cfid, action, tgs, idx, name, value, rules) ==
    IF r.ok
    THEN section_check_regex(r.value, cfid, action, tgs, idx, name, value,
                             rules)
    ELSE r

\* the suffix of the names RequestField::add gives to decoded values
DECODED == decoded_key(<<>>)

\* the body of the loop of section_check over params.iter()
section_check_param(omit, cfid, action, tgs, idx, section, name, value, ignore_alphanum) ==
    IF /\ ~ends_with(name, DECODED)
       /\ Len(value) > section.max_length
       /\ section.max_length > 0
    THEN Err(BlockReason_at(cfid,
                 Restriction("too large", Len(value), section.max_length),
                 Location_from_name(idx, name), action))
    ELSE IF /\ ignore_alphanum
            /\ \A i \in 1 .. Len(value) : is_ascii_alphanumeric(value[i])
    THEN Ok([omit EXCEPT !.entries = @ \cup {name}])
    ELSE IF name \in DOMAIN section.names
    THEN section_check_entry(omit, cfid, action, tgs, idx, name, value,
                             section.names[name])
    ELSE section_check_regex(omit, cfid, action, tgs, idx, name, value,
                             section.regex)

RECURSIVE section_check_params(_, _, _, _, _, _, _, _)
\* the loop of section_check; r is Ok(omit) so far, params the entries
\* params.iter() has still to yield
section_check_params(r, cfid, action, tgs, idx, section, params, ignore_alphanum) ==
    IF ~r.ok \/ params = <<>> THEN r
    ELSE section_check_params(
             section_check_param(r.value, cfid, action, tgs, idx, section,
                                 Head(params)[1], Head(params)[2],
                                 ignore_alphanum),
             cfid, action, tgs, idx, section, Tail(params), ignore_alphanum)

\* section_check: Ok(omit) or Err(BlockReason); params is the RequestField
\* in the order its iterator yields the entries
section_check(cfid, action, tgs, idx, section, params, ignore_alphanum, omit) ==
    IF /\ idx /= "Path"
       /\ Len(params) > section.max_count
       /\ section.max_count > 0
    THEN Err(BlockReason_at(cfid,
                 Restriction("too many", Len(params), section.max_count),
                 Location_from_section(idx), action))
    ELSE section_check_params(Ok(omit), cfid, action, tgs, idx, section,
                              params, ignore_alphanum)

(***************************************************************************)
(* The sections, requests and tags section_check is called with            *)
(***************************************************************************)
SectionNames == {<<"a">>, <<"b">>, decoded_key(<<"a">>)}

SectionValues == {<<"x">>, <<"-">>, <<"-", "-", "-">>}

SectionTags == {"t1"}

\* the rules of a section: with or without a regex, restrict, exclusions
EntryMatches ==
    {ContentFilterEntryMatch(reg, restrict, exclusions) :
        reg \in {None, Some({<<"-">>})}, restrict \in BOOLEAN,
        exclusions \in SUBSET SectionTags}

\* a name regex and its entry
RegexRule(re, entry) == [re |-> re, entry |-> entry]

\* the regex rules of a section: none, one, or a rule after one that does
\* not restrict
RegexRules ==
    LET rules == {RegexRule({<<"a">>, <<"b">>}, e) : e \in EntryMatches}
    IN  {<<>>} \cup {<<r>> : r \in rules}
          \cup {<<r1, r2>> : r1 \in {r \in rules : ~r.entry.restrict /\ r.entry.exclusions = {}},
                             r2 \in {r \in rules : r.entry.restrict}}

Sections ==
    {ContentFilterSection(max_count, max_length, names, regex) :
        max_count \in 0 .. 1, max_length \in {0, 2},
        names \in {<<>>} \cup {<<"a">> :> e : e \in {m \in EntryMatches : m.restrict}},
        regex \in RegexRules}

\* the fields of a section of the request: a map from names to values
ParamMaps ==
    UNION {[ns -> SectionValues] :
              ns \in {s \in SUBSET SectionNames : Cardinality(s) <= MaxParams}}

\* the orders in which a HashMap of these entries can be iterated
Orders(params) ==
    {o \in [1 .. Cardinality(DOMAIN params) -> DOMAIN params] :
        \A i, j \in DOMAIN o : i /= j => o[i] /= o[j]}

Entries(params, order) ==
    [i \in DOMAIN order |-> <<order[i], params[order[i]]>>]

InitSection ==
    /\ AclIdle
    /\ MergeIdle
    /\ PipeIdle
    /\ EntryIdle
    /\ ReloadIdle
    /\ StrongerIdle
    /\ FilterIdle
    /\ FieldIdle
    /\ TagsIdle
    /\ FlowIdle
    /\ MaskIdle
    /\ CreloadIdle
    /\ StreamIdle
    /\ sc_in \in [cfid : {"cf"}, action : {"Custom"},
                  tags : SUBSET SectionTags, idx : {"Headers", "Path"},
                  section : Sections, params : ParamMaps,
                  ignore_alphanum : BOOLEAN]
    /\ sc_out = None

\* content_filter_check calls section_check on one section
SectionCheck ==
    /\ sc_out = None
    /\ \E order \in Orders(sc_in.params) :
          sc_out' = Some([order |-> order,
                          result |-> section_check(sc_in.cfid, sc_in.action,
                                        sc_in.tags, sc_in.idx, sc_in.section,
                                        Entries(sc_in.params, order),
                                        sc_in.ignore_alphanum,
                                        Omitted({}, <<>>))])
    /\ UNCHANGED sc_in
    /\ UNCHANGED nonSectionVars

NextSection == SectionCheck

SpecSection == InitSection /\ [][NextSection]_vars

\* section_check has returned
SectionChecked == IsSome(sc_out)

\* the rules section_check applies to the entry name: the name rule, or
\* else the regex rules whose regex matches the name
RulesFor(section, name) ==
    IF name \in DOMAIN section.names THEN {section.names[name]}
    ELSE {section.regex[i].entry : i \in {j \in DOMAIN section.regex : name \in section.regex[j].re}}

\* the entry is checked against its rules: it is not skipped as alphanumeric
Checked(name) ==
    ~(/\ sc_in.ignore_alphanum
      /\ \A i \in 1 .. Len(sc_in.params[name]) :
            is_ascii_alphanumeric(sc_in.params[name][i]))

\* a rule has restrict set, its regex does not match the value, and the
\* request carries one of the tags of its exclusions
RestrictsBut(rule, value) ==
    /\ rule.restrict
    /\ ~(IsSome(rule.reg) /\ value \in Unwrap(rule.reg))
    /\ has_intersection(sc_in.tags, rule.exclusions)

\* section_check returned the restricted reason of the entry
RestrictedAt(name) ==
    /\ ~Unwrap(sc_out).result.ok
    /\ Unwrap(sc_out).result.error.initiator.tpe = "restricted"
    /\ Unwrap(sc_out).result.error.location =
          Location_from_value(sc_in.idx, name, sc_in.params[name])

\* C21 as stated: an entry whose rule has restrict set and whose value does
\* not match the rule's regex is not blocked when the request carries one
\* of the tags of the rule's exclusions
C21_ExclusionsSuppressRestrict ==
    SectionChecked =>
        \A name \in DOMAIN sc_in.params :
            \A rule \in RulesFor(sc_in.section, name) :
                RestrictsBut(rule, sc_in.params[name]) => ~RestrictedAt(name)

\* C21: an entry that is checked against a rule with restrict set and whose
\* value does not match the rule's regex makes section_check return a
\* block reason, also when the request carries one of the tags of the rule's
\* exclusions
C21_RestrictBlocksDespiteExclusions ==
    SectionChecked =>
        \A name \in DOMAIN sc_in.params :
            \A rule \in RulesFor(sc_in.section, name) :
                Checked(name) /\ RestrictsBut(rule, sc_in.params[name])
                    => ~Unwrap(sc_out).result.ok

\* section_check returned the restricted reason of an entry whose rule
\* lists a tag the request carries
C21_Witness ==
    /\ SectionChecked
    /\ \E name \in DOMAIN sc_in.params :
          /\ Checked(name)
          /\ \E rule \in RulesFor(sc_in.section, name) :
                RestrictsBut(rule, sc_in.params[name])
          /\ RestrictedAt(name)

(***************************************************************************)
(* The Tag Set (interface/tagging.rs): a map from tag to the set of        *)
(* locations it was found at, and the virtual tags of the configuration.   *)
(***************************************************************************)
\* char::to_lowercase on ASCII, then filter_char of tagify
tagify_char(c) ==
    LET l == IF ord(c) \in 65 .. 90 THEN chr(ord(c) + 32) ELSE c
    IN  IF is_ascii_alphanumeric(l) \/ l = ":" THEN l ELSE "-"

\* tagify
tagify(tag) == [i \in 1 .. Len(tag) |-> tagify_char(tag[i])]

\* Tags::new, Tags::new_with_vtags
Tags_new(vtags) == [tags |-> <<>>, vtags |-> vtags]

\* Tags::insert_locs: HashMap::insert of the virtual tags and of the tag
insert_locs(self, value, locs) ==
    LET tag == tagify(value)
        written == {tag} \cup (IF tag \in DOMAIN self.vtags
                               THEN self.vtags[tag] ELSE {})
    IN  [self EXCEPT !.tags =
            [k \in DOMAIN @ \cup written |->
                IF k \in written THEN locs ELSE @[k]]]

\* Tags::insert
insert(self, value, loc) == insert_locs(self, value, {loc})

RECURSIVE with_raw_tags_locs(_, _, _)
\* Tags::with_raw_tags_locs (and with_raw_tags for a single location)
with_raw_tags_locs(self, rawtags, locs) ==
    IF rawtags = {} THEN self
    ELSE LET t == CHOOSE x \in rawtags : TRUE
         IN  with_raw_tags_locs(insert_locs(self, t, locs), rawtags \ {t}, locs)

\* Tags::extend: HashMap::extend, the entries of other replace those of self
extend(self, other) ==
    [self EXCEPT !.tags =
        [k \in DOMAIN @ \cup DOMAIN other.tags |->
            IF k \in DOMAIN other.tags THEN other.tags[k] ELSE @[k]]]

\* Tags::merge
Tags_merge(self, other) ==
    [self EXCEPT !.tags =
        [k \in DOMAIN @ \cup DOMAIN other.tags |->
            (IF k \in DOMAIN @ THEN @[k] ELSE {})
                \cup (IF k \in DOMAIN other.tags THEN other.tags[k] ELSE {})]]

(***************************************************************************)
(* The steps of the pipeline that write to the Tag Set                     *)
(***************************************************************************)
Locations == {"Request", "Ip", "Headers"}

\* tags as the configuration and the request spell them
RawTagValues == {<<"b", "o", "t">>, <<"B", "o", "t">>, <<"g", " ", "a">>}

\* the virtual tags of the configuration
VirtualTagMaps == {<<>>, tagify(<<"b", "o", "t">>) :> {<<"v">>}}

InitTags ==
    /\ AclIdle
    /\ MergeIdle
    /\ PipeIdle
    /\ EntryIdle
    /\ ReloadIdle
    /\ StrongerIdle
    /\ FilterIdle
    /\ FieldIdle
    /\ SectionIdle
    /\ FlowIdle
    /\ MaskIdle
    /\ CreloadIdle
    /\ StreamIdle
    /\ \E vtags \in VirtualTagMaps : tg = Tags_new(vtags)

\* tag_request: the tags of the precision level, of the request and of the
\* security policy, one tags.insert each
TagInsert ==
    /\ \E value \in RawTagValues, loc \in Locations :
          tg' = insert(tg, value, loc)
    /\ UNCHANGED nonTagVars

\* tag_request: a global filter section matches, its tags are written with
\* the locations that matched
TagGlobalFilter ==
    /\ \E rawtags \in SUBSET RawTagValues, matched \in SUBSET Locations :
          tg' = extend(tg, with_raw_tags_locs(Tags_new(tg.vtags), rawtags, matched))
    /\ UNCHANGED nonTagVars

\* analyze_finish: the tags of the ACL profile and of the content-filter
\* profile are written with the locations of the block reasons
TagProfile ==
    /\ \E rawtags \in SUBSET RawTagValues, locs \in SUBSET Locations :
          tg' = with_raw_tags_locs(tg, rawtags, locs)
    /\ UNCHANGED nonTagVars

\* hyperscan: the tags of a matching rule are merged
TagSignature ==
    /\ \E new_tags \in SUBSET RawTagValues, location \in Locations :
          tg' = Tags_merge(tg, with_raw_tags_locs(Tags_new(tg.vtags), new_tags,
                                                  {location}))
    /\ UNCHANGED nonTagVars

NextTags ==
    \/ TagInsert
    \/ TagGlobalFilter
    \/ TagProfile
    \/ TagSignature

SpecTags == InitTags /\ [][NextTags]_vars

\* C22: every step keeps every tag of the Tag Set and every location the
\* tag had
C22_TagSetOnlyGrows ==
    [][\A t \in DOMAIN tg.tags :
          /\ t \in DOMAIN tg'.tags
          /\ tg.tags[t] \subseteq tg'.tags[t]]_vars

\* the exceeded thresholds of r whose action is of one of the types
ExceededOf(r, types) ==
    {k \in Exceeded(r) : r.limit.thresholds[k].action.atype.t \in types}

\* C23: when a limit result exceeds a threshold whose action is Skip and a
\* threshold whose action is Custom or Challenge, the decision limit_process
\* gives for the limit carries the Custom or Challenge action, not Skip.
C23_SkipThresholdIgnored ==
    pc = "finish" =>
        \A i \in 1..Len(limit.results) :
            LET r == limit.results[i]
            IN  /\ r.curcount > 0
                /\ ExceededOf(r, {"Skip"}) /= {}
                /\ ExceededOf(r, {"Custom", "Challenge"}) /= {}
                => limit_process(Pass, <<r>>).action.atype.t
                       \in {"Custom", "Challenge"}

\* what analyze_finish holds when it comes to the ACL: the accumulated
\* decision and the tags after limit processing
BeforeAcl(gh_ok) ==
    LET limit_check == limit_process(Pass, limit.results)
        tags1 == tags \cup limit_process_tags(limit.results)
    IN  IF limit_check.type = "Action"
        THEN [cumulated |-> LimitAccumulated(gh_ok),
              tags |-> to_decision(limit_check.action, conf.precision_level,
                                   conf.mgh, gh_ok, tags1,
                                   limit_check.reasons).tags]
        ELSE [cumulated |-> p0_decision, tags |-> tags1]

\* the ACL verdict of the request
AclVerdict(gh_ok) ==
    decision(check_acl(BeforeAcl(gh_ok).tags, conf.secpolicy.acl_profile),
             PrecisionLevel_is_human(conf.precision_level))

\* the block reasons of the ACL in a decision
AclReasons(d) ==
    {d.reasons[i] : i \in {j \in 1..Len(d.reasons) :
                              d.reasons[j].initiator.kind = "Acl"}}

\* the decision analyze_finish gives when the ACL adds nothing but its
\* Monitor block reason br
WithoutAclAction(before, br, gh_ok) ==
    finish_content_filter(
        merge_decisions(before.cumulated, Decision_pass(<<br>>)),
        before.tags \cup conf.secpolicy.acl_profile.tags, gh_ok).res.decision

\* analyze_finish reaches the ACL of a policy whose acl_active is false,
\* with a verdict that is not a bot denial with the challenge flag
InactiveAclStep(gh_ok) ==
    /\ pc = "finish" /\ pc' = "done"
    /\ "acl" \in evaluated'
    /\ ~conf.secpolicy.acl_active
    /\ IsSome(AclVerdict(gh_ok))
    /\ ~Unwrap(AclVerdict(gh_ok)).challenge

\* C24: with acl_active false, an ACL verdict other than a bot denial with
\* the challenge flag leaves only Monitor block reasons, adds no action to
\* the accumulated decision, and the request goes on to the content filter.
C24_InactiveAclNeverBlocks ==
    [][\A gh_ok \in BOOLEAN :
          InactiveAclStep(gh_ok) =>
              /\ Unwrap(result').stage = "cf"
              /\ "cf" \in evaluated'
              /\ \A br \in AclReasons(Unwrap(result').decision) :
                    br.action = "Monitor"
              /\ \E br \in AclReasons(Unwrap(result').decision),
                    ok \in BOOLEAN :
                    Unwrap(result').decision
                        = WithoutAclAction(BeforeAcl(gh_ok), br, ok)]_vars

\* a request denied by the ACL of a policy whose acl_active is false ended
\* at the content-filter stage with the Monitor reason of the denial
C24_Witness ==
    /\ Done
    /\ ~conf.secpolicy.acl_active
    /\ Stage = "cf"
    /\ \E br \in AclReasons(Unwrap(result).decision) :
          /\ br.initiator.stage \in {"Deny", "EnforceDeny"}
          /\ br.action = "Monitor"

(***************************************************************************)
(* Several requests of one flow sequence and one counter key, each running *)
(* analyze_query_flows on its own task (analyze.rs 291-330, flow.rs        *)
(* 97-144).  The list of the key is kept with the step that pushed each    *)
(* element, the counter store itself holds the same element "foo" each    *)
(* time.                                                                   *)
(***************************************************************************)
MaxRequests == 3

\* the terminal step of the sequence: steps 0 .. LastStep - 1 come before
LastStep == 2

\* the FlowCheck of a request that matches the element at `step`
FlowCheck(step) ==
    [redis_key |-> "fk", step |-> step, timeframe |-> 10,
     is_last |-> step = LastStep, id |-> "f1", tags |-> {}]

FlowRequest(check) ==
    [check |-> check, at |-> "query", listlen |-> None, seen |-> <<>>,
     tp |-> None]

InitFlow ==
    /\ AclIdle
    /\ MergeIdle
    /\ PipeIdle
    /\ EntryIdle
    /\ ReloadIdle
    /\ StrongerIdle
    /\ FilterIdle
    /\ FieldIdle
    /\ SectionIdle
    /\ TagsIdle
    /\ MaskIdle
    /\ CreloadIdle
    /\ StreamIdle
    /\ fl_key = [list |-> <<>>, has_ttl |-> FALSE]
    /\ \E n \in 1 .. MaxRequests :
          fl_reqs \in [1 .. n -> {FlowRequest(FlowCheck(s)) : s \in 0 .. LastStep}]

\* analyze_query_flows: the LLEN pipeline of flow_build_query is answered
FlowQuery(r) ==
    /\ fl_reqs[r].at = "query"
    /\ fl_reqs' = [fl_reqs EXCEPT ![r].at = "resolve",
                                  ![r].listlen = Some(Len(fl_key.list)),
                                  ![r].seen = fl_key.list]
    /\ UNCHANGED fl_key
    /\ UNCHANGED nonFlowVars

\* flow_resolve_query: the check is classified with the LLEN reply; a
\* non-terminal step at its position sends LPUSH and TTL
FlowResolve(r) ==
    /\ fl_reqs[r].at = "resolve"
    /\ LET check == fl_reqs[r].check
           listlen == unwrap_or(fl_reqs[r].listlen, 0)
           tp == FlowResultType(check, listlen)
       IN  IF NeedsLpush(check, listlen)
           THEN /\ fl_key' = [fl_key EXCEPT !.list = Append(@, check.step)]
                /\ fl_reqs' = [fl_reqs EXCEPT
                                  ![r].at = IF fl_key.has_ttl THEN "done"
                                            ELSE "expire",
                                  ![r].tp = Some(tp)]
           ELSE /\ fl_reqs' = [fl_reqs EXCEPT ![r].at = "done",
                                              ![r].tp = Some(tp)]
                /\ UNCHANGED fl_key
    /\ UNCHANGED nonFlowVars

\* flow_resolve_query: the TTL reply was negative, EXPIRE is sent
FlowExpire(r) ==
    /\ fl_reqs[r].at = "expire"
    /\ fl_key' = [fl_key EXCEPT !.has_ttl = TRUE]
    /\ fl_reqs' = [fl_reqs EXCEPT ![r].at = "done"]
    /\ UNCHANGED nonFlowVars

\* the timeframe of the key runs out: the counter store drops the list
FlowKeyExpires ==
    /\ fl_key.has_ttl
    /\ fl_key' = [list |-> <<>>, has_ttl |-> FALSE]
    /\ UNCHANGED fl_reqs
    /\ UNCHANGED nonFlowVars

NextFlow ==
    \/ \E r \in DOMAIN fl_reqs : FlowQuery(r)
    \/ \E r \in DOMAIN fl_reqs : FlowResolve(r)
    \/ \E r \in DOMAIN fl_reqs : FlowExpire(r)
    \/ FlowKeyExpires

SpecFlow == InitFlow /\ [][NextFlow]_vars

\* the list a terminal step must find: one element of each earlier step,
\* in the order of the sequence
InSequence == [i \in 1 .. LastStep |-> i - 1]

\* C25: a request at the terminal step is classified LastOk only if the
\* list it measured holds one element of each earlier step, pushed in
\* sequence order within the timeframe; and each step adds at most one
\* element to the list of the key, also with concurrent requests.
C25_LastOkOnlyInSequence ==
    /\ \A r \in DOMAIN fl_reqs :
          fl_reqs[r].tp = Some("LastOk") => fl_reqs[r].seen = InSequence
    /\ \A i, j \in 1 .. Len(fl_key.list) :
          i /= j => fl_key.list[i] /= fl_key.list[j]

(***************************************************************************)
(* Masking of the request information (contentfilter.rs masking), on      *)
(* strings kept as sequences of characters.                               *)
(***************************************************************************)
\* str::contains
str_contains(s, pat) ==
    \E i \in 1 .. Len(s) - Len(pat) + 1 : SubSeq(s, i, i + Len(pat) - 1) = pat

RECURSIVE str_replace_from(_, _, _)
\* str::replace with a non-empty pattern: the non-overlapping matches, from
\* the left
str_replace_from(s, from, to) ==
    IF Len(s) < Len(from) THEN s
    ELSE IF SubSeq(s, 1, Len(from)) = from
    THEN to \o str_replace_from(SubSeqFrom(s, Len(from) + 1), from, to)
    ELSE <<Head(s)>> \o str_replace_from(Tail(s), from, to)

RECURSIVE str_replace_empty(_, _)
\* str::replace with the empty pattern, which matches at every boundary
str_replace_empty(s, to) ==
    IF s = <<>> THEN to
    ELSE to \o <<Head(s)>> \o str_replace_empty(Tail(s), to)

\* str::replace
str_replace(s, from, to) ==
    IF from = <<>> THEN str_replace_empty(s, to)
    ELSE str_replace_from(s, from, to)

RECURSIVE str_split(_, _)
\* str::split on a character
str_split(s, c) ==
    IF \A i \in DOMAIN s : s[i] # c THEN <<s>>
    ELSE LET p == CHOOSE i \in DOMAIN s :
                      s[i] = c /\ \A j \in 1 .. i - 1 : s[j] # c
         IN  <<SubSeq(s, 1, p - 1)>> \o str_split(SubSeqFrom(s, p + 1), c)

\* str::splitn(2, c).collect_tuple(): the two halves, or None without c
splitn2(s, c) ==
    IF \A i \in DOMAIN s : s[i] # c THEN None
    ELSE LET p == CHOOSE i \in DOMAIN s :
                      s[i] = c /\ \A j \in 1 .. i - 1 : s[j] # c
         IN  Some(<<SubSeq(s, 1, p - 1), SubSeqFrom(s, p + 1)>>)

RECURSIVE str_split_str(_, _)
\* str::split on a string pattern
str_split_str(s, pat) ==
    IF ~str_contains(s, pat) THEN <<s>>
    ELSE LET p == CHOOSE i \in 1 .. Len(s) :
                      /\ SubSeq(s, i, i + Len(pat) - 1) = pat
                      /\ \A j \in 1 .. i - 1 : SubSeq(s, j, j + Len(pat) - 1) # pat
         IN  <<SubSeq(s, 1, p - 1)>>
                 \o str_split_str(SubSeqFrom(s, p + Len(pat)), pat)

\* str::to_lowercase on ASCII
str_to_lowercase(s) ==
    [i \in DOMAIN s |->
        IF ord(s[i]) \in 65 .. 90 THEN chr(ord(s[i]) + 32) ELSE s[i]]

\* the hexadecimal digit of n
hex_digit(n) ==
    <<"0", "1", "2", "3", "4", "5", "6", "7", "8", "9", "a", "b", "c", "d",
      "e", "f">>[n + 1]

\* format!("{:x}") of a 16-bit value, four digits
hex4(n) ==
    <<hex_digit(n \div 4096), hex_digit((n \div 256) % 16),
      hex_digit((n \div 16) % 16), hex_digit(n % 16)>>

RECURSIVE checksum(_, _, _)
\* a 16-bit rolling checksum of bytes, standing for the digest: masking
\* depends on the digest only through its being a function of seed and
\* value printed as lowercase hexadecimal digits
checksum(h, mult, bytes) ==
    IF bytes = <<>> THEN h
    ELSE checksum((h * mult + ord(Head(bytes))) % 65536, mult, Tail(bytes))

\* utils::masker: "MASKED{" + the first 8 hex digits of the digest of seed
\* and value + "}"
masker_str(seed, value) ==
    <<"M", "A", "S", "K", "E", "D", "{">> \o hex4(checksum(7, 31, seed \o value))
               \o hex4(checksum(11, 17, seed \o value)) \o <<"}">>

\* the locations a field value was read from
UriArgumentValue(k, v) == <<"UriArgumentValue", k, v>>
RefererArgumentValue(k, v) == <<"RefererArgumentValue", k, v>>
PathpartValue(p, v) == <<"PathpartValue", p, v>>
RefererPathpartValue(p, v) == <<"RefererPathpartValue", p, v>>
HeaderValue(k, v) == <<"HeaderValue", k, v>>
CookieValue(k, v) == <<"CookieValue", k, v>>

\* RequestField::base_add with the location: fields maps a key to (v, ds)
base_add_at(fields, key, ds, value) ==
    IF key \in DOMAIN fields
    THEN [fields EXCEPT ![key] = [v |-> @.v \o <<" ">> \o value,
                                  ds |-> @.ds \cup {ds}]]
    ELSE fields @@ (key :> [v |-> value, ds |-> {ds}])

\* RequestField::add of value at key, read from ds; the profiles masking is
\* run with configure no transformation, so that change is None and add is
\* base_add (requestfields.rs line 83)
add_at(rf, key, ds, value) ==
    [rf EXCEPT !.fields = base_add_at(@, key, ds, value)]

\* RequestField::mask: the value at key replaced by its mask; returns the
\* field and the locations of the key
RequestField_mask(rf, seed, key) ==
    IF key \in DOMAIN rf.fields
    THEN [rf |-> [rf EXCEPT !.fields[key].v = masker_str(seed, @)],
          locs |-> rf.fields[key].ds]
    ELSE [rf |-> rf, locs |-> {}]

\* RequestField::alter with f = |r| r.replace(from, to)
alter_replace(rf, k, from, to) ==
    IF k \in DOMAIN rf.fields
    THEN [rf EXCEPT !.fields[k].v = str_replace(@, from, to)]
    ELSE rf

\* urldecode_str_def: the decoded string, or the input when nothing changed
changed_or(r, input) == IF r.changed THEN r.value ELSE input
urldecode_str_def(input) == changed_or(urldecode_str(input), input)

\* to_kv of cookie_map
to_kv(cook) ==
    LET kv == splitn2(cook, "=")
    IN  IF kv = None THEN <<cook, <<>>>> ELSE Unwrap(kv)

\* cookies.add(k, CookieValue(k, v), v) for the pair kv
cookie_add(cookies, kv) ==
    add_at(cookies, kv[1], CookieValue(kv[1], kv[2]), kv[2])

RECURSIVE cookie_map_from(_, _)
cookie_map_from(cookies, kvs) ==
    IF kvs = <<>> THEN cookies
    ELSE cookie_map_from(cookie_add(cookies, to_kv(Head(kvs))), Tail(kvs))

\* utils::cookie_map
cookie_map(cookies, cookie) ==
    cookie_map_from(cookies, str_split_str(cookie, <<";", " ">>))

\* the body of the loop of utils::map_headers for the lowercased name lk
map_header(hc, lk, v) ==
    IF lk = <<"c", "o", "o", "k", "i", "e">>
    THEN [hc EXCEPT !.cookies = cookie_map(@, v)]
    ELSE [hc EXCEPT !.headers = add_at(@, lk, HeaderValue(lk, v), v)]

RECURSIVE map_headers_at(_, _, _)
\* the loop of utils::map_headers over the raw headers not yet seen; the
\* names in use stay distinct once lowercased, so the order of the HashMap
\* does not show
map_headers_at(hc, rawheaders, todo) ==
    IF todo = {} THEN hc
    ELSE map_headers_at(
             map_header(hc, str_to_lowercase(CHOOSE x \in todo : TRUE),
                        rawheaders[CHOOSE x \in todo : TRUE]),
             rawheaders, todo \ {CHOOSE x \in todo : TRUE})

\* utils::map_headers: (headers, cookies)
map_headers_str(dec, rawheaders) ==
    map_headers_at([headers |-> RequestField_new(dec),
                    cookies |-> RequestField_new(dec)],
                   rawheaders, DOMAIN rawheaders)

\* ParseUriMode::prefix, query_location, path_location
prefix_of(mode) == IF mode = "Uri" THEN <<>> ELSE <<"r", "e", "f", ":">>
query_location(mode, k, v) ==
    IF mode = "Uri" THEN UriArgumentValue(k, v) ELSE RefererArgumentValue(k, v)
path_location(mode, p, v) ==
    IF mode = "Uri" THEN PathpartValue(p, v) ELSE RefererPathpartValue(p, v)

\* args.add(prefix + k, locf(k, rawvalue), v)
add_param(args, mode, k, v, rawvalue) ==
    add_at(args, prefix_of(mode) \o k, query_location(mode, k, rawvalue), v)

\* the body of the loop of parse_urlencoded_params on kv, split as halves
parse_urlencoded_param(args, mode, kv, halves) ==
    IF halves = None
    THEN add_param(args, mode, urldecode_str_def(kv), <<>>, <<>>)
    ELSE add_param(args, mode, urldecode_str_def(Unwrap(halves)[1]),
                   urldecode_str_def(Unwrap(halves)[2]), Unwrap(halves)[2])

RECURSIVE parse_urlencoded_params_from(_, _, _)
parse_urlencoded_params_from(args, kvs, mode) ==
    IF kvs = <<>> THEN args
    ELSE parse_urlencoded_params_from(
             parse_urlencoded_param(args, mode, Head(kvs),
                                    splitn2(Head(kvs), "=")),
             Tail(kvs), mode)

\* utils::parse_query_params, through decoders::parse_urlencoded_params: the
\* location keeps the raw value, the store gets the decoded one
parse_query_params(rf, query, mode) ==
    parse_urlencoded_params_from(rf, str_split(query, "&"), mode)

\* the decimal digits of a small index
index_str(i) == <<chr(48 + i)>>

\* the urldecoded entry of a path part, added when decoding changed it
path_part_decoded(raw, key, loc, d) ==
    IF d.changed THEN add_at(raw, key \o <<":", "u", "r", "l", "d", "e", "c", "o", "d", "e", "d">>, loc, d.value) ELSE raw

\* the body of the loop of parse_uri on the part p at index i
path_part(path_as_map, key, loc, p) ==
    IF p = <<>> THEN path_as_map
    ELSE path_part_decoded(add_at(path_as_map, key, loc, p), key, loc,
                           urldecode_str(p))

RECURSIVE path_parts_from(_, _, _, _)
\* the loop of parse_uri over the parts of qpath, i counted from 0
path_parts_from(path_as_map, parts, i, mode) ==
    IF parts = <<>> THEN path_as_map
    ELSE path_parts_from(
             path_part(path_as_map, prefix_of(mode) \o <<"p", "a", "r", "t">> \o index_str(i),
                       path_location(mode, i, Head(parts)), Head(parts)),
             Tail(parts), i + 1, mode)

\* utils::parse_uri: args and path_as_map filled from path, and the pair
\* (qpath, query)
parse_uri_split(args, path_as_map, qpath, query, mode) ==
    [args |-> IF query = None THEN args
              ELSE parse_query_params(args, Unwrap(query), mode),
     path_as_map |->
        path_parts_from(
            add_at(path_as_map, prefix_of(mode) \o <<"p", "a", "t", "h">>,
                   IF mode = "Uri" THEN <<"Uri">> ELSE <<"Header", <<"r", "e", "f", "e", "r", "e", "r">>>>,
                   qpath),
            str_split(qpath, "/"), 0, mode),
     qpath |-> qpath,
     query |-> IF query = None THEN None ELSE Some(<<"?">> \o Unwrap(query))]

parse_uri_halves(args, path_as_map, path, halves, mode) ==
    IF halves = None THEN parse_uri_split(args, path_as_map, path, None, mode)
    ELSE parse_uri_split(args, path_as_map, Unwrap(halves)[1],
                         Some(Unwrap(halves)[2]), mode)

parse_uri(args, path_as_map, path, mode) ==
    parse_uri_halves(args, path_as_map, path, splitn2(path, "?"), mode)

\* utils::map_args of a request without a body
query_info(uri, parsed) ==
    [qpath |-> parsed.qpath, query |-> parsed.query, uri |-> uri,
     args |-> parsed.args, path_as_map |-> parsed.path_as_map]

map_args_str(dec, path) ==
    query_info(urldecode_str_def(path),
               parse_uri(RequestField_new(dec), RequestField_new(dec), path,
                         "Uri"))

\* the length of the longest prefix of s made of characters that satisfy ok
leading(s, ok(_)) ==
    IF \A i \in DOMAIN s : ok(s[i]) THEN Len(s)
    ELSE (CHOOSE i \in DOMAIN s : ~ok(s[i]) /\ \A j \in 1 .. i - 1 : ok(s[j])) - 1

\* url::unreserved, sub_delims and the characters of userinfo
unreserved(c) ==
    \/ ord(c) \in (97 .. 122) \cup (48 .. 57)
    \/ c \in {"+", ".", "_", "~"}
sub_delims(c) == c \in {"!", "$", "&", "'", "(", ")", "*", "+", ",", ";", "="}
userinfo_char(c) == unreserved(c) \/ sub_delims(c) \/ c \in {"%", ":"}
not_slash(c) == c # "/"

\* opt(terminated(userinfo, tag("@"))) and phost of url::parse_uri
drop_hostport(input) ==
    LET u == leading(input, userinfo_char)
        after_user == IF u < Len(input) /\ input[u + 1] = "@"
                      THEN SubSeqFrom(input, u + 2) ELSE input
    IN  SubSeqFrom(after_user, leading(after_user, not_slash) + 1)

\* url::drop_scheme: what follows scheme://userinfo@hostport, or the input
\* when it does not parse
drop_scheme(uri) ==
    LET n == leading(uri, unreserved)
    IN  IF SubSeq(uri, n + 1, n + 3) = <<":", "/", "/">>
        THEN drop_hostport(SubSeqFrom(uri, n + 4))
        ELSE uri

\* the arguments and path parts of the referer added to qinfo
referer_parsed(qinfo, parsed) ==
    [qinfo EXCEPT !.args = parsed.args, !.path_as_map = parsed.path_as_map]

with_referer(qinfo, rf) ==
    referer_parsed(qinfo, parse_uri(qinfo.args, qinfo.path_as_map,
                                    drop_scheme(rf), "Referer"))

\* utils::map_request: the parts of RequestInfo that masking reads or writes
request_info(profile, raw, hc, qinfo) ==
    [cookies |-> hc.cookies,
     headers |-> hc.headers,
     rinfo |->
        [meta |-> raw.meta,
         qinfo |-> IF /\ profile.referer_as_uri
                      /\ <<"r", "e", "f", "e", "r", "e", "r">> \in DOMAIN hc.headers.fields
                   THEN with_referer(qinfo, hc.headers.fields[<<"r", "e", "f", "e", "r", "e", "r">>].v)
                   ELSE qinfo,
         secpolicy |-> [content_filter_profile |-> profile]]]

map_request_str(profile, raw) ==
    request_info(profile, raw, map_headers_str(profile.decoding, raw.headers),
                 map_args_str(profile.decoding, raw.meta.path))

\* the names of sec that section flags for masking
to_mask_of(sec, section) ==
    {name \in DOMAIN sec.fields :
        IF name \in DOMAIN section.names THEN section.names[name].mask
        ELSE \E i \in DOMAIN section.regex :
                section.regex[i].entry.mask /\ name \in section.regex[i].re}

RECURSIVE mask_names(_, _, _, _)
\* sec.mask on every name of to_mask, with the locations collected
mask_names(seed, sec, to_mask, locs) ==
    IF to_mask = {} THEN [rf |-> sec, locs |-> locs]
    ELSE mask_names(seed,
                    RequestField_mask(sec, seed, CHOOSE x \in to_mask : TRUE).rf,
                    to_mask \ {CHOOSE x \in to_mask : TRUE},
                    locs \cup sec.fields[CHOOSE x \in to_mask : TRUE].ds)

\* contentfilter::mask_section: the masked field and the locations to mask
mask_section_str(masking_seed, sec, section) ==
    mask_names(masking_seed, sec, to_mask_of(sec, section), {})

\* one turn of the loop of masking over to_mask
mask_uri_argument(ri, v, target) ==
    [ri EXCEPT !.rinfo.meta.path = str_replace(@, v, target),
               !.rinfo.qinfo.query =
                   IF @ = None THEN None
                   ELSE Some(str_replace(Unwrap(@), v, target))]

extra_mask_step(ri, seed, extra_mask) ==
    IF extra_mask[1] = "UriArgumentValue"
    THEN mask_uri_argument(ri, extra_mask[3], masker_str(seed, extra_mask[3]))
    ELSE IF extra_mask[1] = "RefererArgumentValue"
    THEN [ri EXCEPT !.headers = alter_replace(@, <<"r", "e", "f", "e", "r", "e", "r">>, extra_mask[3],
                                              masker_str(seed, extra_mask[3]))]
    ELSE IF extra_mask = <<"Body">>
    THEN [ri EXCEPT !.rinfo.qinfo.args =
                        RequestField_mask(@, seed, <<"R", "A", "W", "_", "B", "O", "D", "Y">>).rf]
    ELSE ri

RECURSIVE extra_masks(_, _, _)
extra_masks(ri, seed, order) ==
    IF order = <<>> THEN ri
    ELSE extra_masks(extra_mask_step(ri, seed, Head(order)), seed, Tail(order))

\* the four mask_section calls of masking
sections_masked(req, c, a, p, h) ==
    [ri |-> [req EXCEPT !.cookies = c.rf, !.rinfo.qinfo.args = a.rf,
                        !.rinfo.qinfo.path_as_map = p.rf, !.headers = h.rf],
     to_mask |-> c.locs \cup a.locs \cup p.locs \cup h.locs]

masked_sections_of(req, seed, sections) ==
    sections_masked(
        req,
        mask_section_str(seed, req.cookies, sections.Cookies),
        mask_section_str(seed, req.rinfo.qinfo.args, sections.Args),
        mask_section_str(seed, req.rinfo.qinfo.path_as_map, sections.Path),
        mask_section_str(seed, req.headers, sections.Headers))

masked_sections(req) ==
    masked_sections_of(
        req, req.rinfo.secpolicy.content_filter_profile.masking_seed,
        req.rinfo.secpolicy.content_filter_profile.sections)

\* the orders in which the HashSet to_mask can be iterated
SetOrders(s) ==
    {o \in [1 .. Cardinality(s) -> s] : \A i, j \in DOMAIN o : i # j => o[i] # o[j]}

\* the loop of masking over to_mask, taken in one of the orders of the set
masking_loop(ms, seed) ==
    {extra_masks(ms.ri, seed, order) : order \in SetOrders(ms.to_mask)}

\* contentfilter::masking: the request information it can return
masking_str(req) ==
    masking_loop(masked_sections(req),
                 req.rinfo.secpolicy.content_filter_profile.masking_seed)

(***************************************************************************)
(* The requests and profiles masking runs on.                             *)
(***************************************************************************)
\* ContentFilterEntryMatch with mask set, and a section with its masks
MaskEntry == [reg |-> None, restrict |-> FALSE, mask |-> TRUE, exclusions |-> {}]
MaskNames(names) ==
    ContentFilterSection(0, 0, [n \in names |-> MaskEntry], <<>>)
MaskRegex(re) ==
    ContentFilterSection(0, 0, <<>>, <<RegexRule(re, MaskEntry)>>)

ArgsSections ==
    {MaskNames({}), MaskNames({<<"a">>}), MaskNames({<<"r", "e", "f", ":", "c">>}),
     MaskRegex({<<"a">>, <<"b">>, <<"r", "e", "f", ":", "c">>})}
HeadersSections == {MaskNames({}), MaskNames({<<"r", "e", "f", "e", "r", "e", "r">>})}
CookiesSections == {MaskNames({}), MaskNames({<<"s", "i", "d">>})}
PathSections == {MaskNames({}), MaskNames({<<"p", "a", "r", "t", "1">>})}

MaskProfiles ==
    {[masking_seed |-> <<"k">>, decoding |-> <<>>, referer_as_uri |-> r,
      sections |-> [Args |-> a, Headers |-> h, Cookies |-> c, Path |-> p]] :
        r \in BOOLEAN, a \in ArgsSections, h \in HeadersSections,
        c \in CookiesSections, p \in PathSections}

\* raw paths: every field of a request holds a value of its own
RawPaths ==
    {<<"/", "p">>, <<"/", "p", "?", "a", "=", "s", "e", "c">>, <<"/", "p", "?", "a", "=", "s", "e", "c", "&", "b", "=", "t", "o", "k">>, <<"/", "p", "?", "a", "=", "s", "%", "6", "5", "c">>, <<"/", "p", "?", "a", "=">>,
     <<"/", "d", "i", "r", "/", "p", "?", "a", "=", "s", "e", "c">>}

RawHeaderMaps ==
    {<<>>,
     <<"R", "e", "f", "e", "r", "e", "r">> :> <<"/", "r", "?", "c", "=", "r", "v">>,
     <<"R", "e", "f", "e", "r", "e", "r">> :> <<"h", "t", "t", "p", ":", "/", "/", "h", "/", "r", "?", "c", "=", "r", "v">>,
     <<"C", "o", "o", "k", "i", "e">> :> <<"s", "i", "d", "=", "c", "v", ";", " ", "t", "=", "u">>,
     (<<"R", "e", "f", "e", "r", "e", "r">> :> <<"/", "r", "?", "c", "=", "r", "v">>) @@ (<<"C", "o", "o", "k", "i", "e">> :> <<"s", "i", "d", "=", "c", "v">>)}

RawRequests ==
    {[meta |-> [path |-> path], headers |-> hs] :
        path \in RawPaths, hs \in RawHeaderMaps}

InitMask ==
    /\ AclIdle
    /\ MergeIdle
    /\ PipeIdle
    /\ EntryIdle
    /\ ReloadIdle
    /\ StrongerIdle
    /\ FilterIdle
    /\ FieldIdle
    /\ SectionIdle
    /\ TagsIdle
    /\ FlowIdle
    /\ CreloadIdle
    /\ StreamIdle
    /\ mk_raw \in {<<profile, raw>> : profile \in MaskProfiles, raw \in RawRequests}
    /\ mk_req = None
    /\ mk_out = None

\* map_request builds the request information
MapRequest ==
    /\ mk_req = None
    /\ mk_req' = Some(map_request_str(mk_raw[1], mk_raw[2]))
    /\ UNCHANGED <<mk_raw, mk_out>>
    /\ UNCHANGED nonMaskVars

\* masking, as analyze calls it on the request information it returns
Masking ==
    /\ mk_req # None
    /\ mk_out = None
    /\ \E masked \in masking_str(Unwrap(mk_req)) : mk_out' = Some(masked)
    /\ UNCHANGED <<mk_raw, mk_req>>
    /\ UNCHANGED nonMaskVars

NextMask == MapRequest \/ Masking

SpecMask == InitMask /\ [][NextMask]_vars

\* the values of a field store
StoreValues(rf) == {rf.fields[k].v : k \in DOMAIN rf.fields}

\* the strings of the request information that into_json_notags and the log
\* write: the four field stores, the raw path, the path and query parts and
\* the decoded uri (the referer header is in the header store)
LoggedStrings(ri) ==
    StoreValues(ri.rinfo.qinfo.args) \cup StoreValues(ri.headers)
        \cup StoreValues(ri.cookies) \cup StoreValues(ri.rinfo.qinfo.path_as_map)
        \cup {ri.rinfo.meta.path, ri.rinfo.qinfo.qpath, ri.rinfo.qinfo.uri}
        \cup (IF ri.rinfo.qinfo.query = None THEN {}
              ELSE {Unwrap(ri.rinfo.qinfo.query)})

\* the original values of the fields that the profile flags for masking
FlaggedValues(ri) ==
    LET sections == ri.rinfo.secpolicy.content_filter_profile.sections
        of(sec, section) == {sec.fields[n].v : n \in to_mask_of(sec, section)}
    IN  of(ri.cookies, sections.Cookies)
            \cup of(ri.rinfo.qinfo.args, sections.Args)
            \cup of(ri.rinfo.qinfo.path_as_map, sections.Path)
            \cup of(ri.headers, sections.Headers)

\* C26: after masking, the original value of a field flagged for masking
\* appears in no string of the request information that is written to the
\* log: not in a field store, the raw path, the path, the query string, the
\* decoded uri or the referer header
C26_MaskedValueNowhereLogged ==
    mk_out # None =>
        \A v \in FlaggedValues(Unwrap(mk_req)) :
            v # <<>> =>
                \A s \in LoggedStrings(Unwrap(mk_out)) : ~str_contains(s, v)

\* the result a one-shot or incremental call returned early, with the policy
\* that served the request
EarlyResult == Unwrap(ret).error
HasEarlyResult ==
    /\ IsSome(ret)
    /\ ~Unwrap(ret).ok
    /\ "decision" \in DOMAIN Unwrap(ret).error
ServingPolicy ==
    IF "secpolicy" \in DOMAIN EarlyResult.rinfo THEN EarlyResult.rinfo.secpolicy
    ELSE EarlyResult.rinfo.secpol

\* C27: when the content_filter_active flag of the security policy is false,
\* no check derived from the content-filter profile blocks the request: a
\* header-count, header-length or body-size violation leaves the decision an
\* entry point returns non-blocking
C27_InactiveContentFilterNeverBlocks ==
    (HasEarlyResult /\ ~ServingPolicy.content_filter_active) =>
        ~Blocking(EarlyResult.decision)

\* the headers held by an IData as the params of the header section
RECURSIVE HeaderParams(_)
HeaderParams(headers) ==
    IF DOMAIN headers = {} THEN <<>>
    ELSE LET k == CHOOSE x \in DOMAIN headers : TRUE
         IN  <<<<<<k>>, headers[k]>>>>
                 \o HeaderParams([x \in DOMAIN headers \ {k} |-> headers[x]])

\* the count and length checks of section_check on the header section of
\* the profile, which carries no rule on names
HeaderSectionAccepts(profile, headers) ==
    section_check(profile.id, to_raw(profile.action.atype), {}, "Headers",
                  ContentFilterSection(profile.sections.headers.max_count,
                                       profile.sections.headers.max_length,
                                       <<>>, <<>>),
                  HeaderParams(headers), FALSE, Omitted({}, {})).ok

\* add_header is being called with the content filter active
OffersOneHeader ==
    /\ OffersHeaders
    /\ Len(offered'[Len(offered')][2]) = 1
    /\ Unwrap(idata).secpol.content_filter_active

\* the header offered, and the header map with it inserted
OfferedHeader == offered'[Len(offered')][2][1]
WithOffered ==
    (to_lowercase(OfferedHeader[1]) :> OfferedHeader[2]) @@ Unwrap(idata).headers

\* the call is refused by the Content-Length test of add_header, which is no
\* test of the header section
RefusedForBody ==
    /\ ~Unwrap(ret').ok
    /\ Unwrap(ret').error.decision.reasons[1].initiator.tpe = "too large"
    /\ to_lowercase(OfferedHeader[1]) = "content-length"
    /\ Unwrap(ret').error.decision.reasons[1].initiator.expected
          = Unwrap(idata).secpol.content_filter_profile.max_body_size
    /\ parse_usize(OfferedHeader[2]).ok
    /\ parse_usize(OfferedHeader[2]).value
          > Unwrap(idata).secpol.content_filter_profile.max_body_size

\* C28: add_header accepts exactly what the header section check accepts for
\* count and length: a max_count or max_length of 0 disables the check, and
\* a header set with at most max_count distinct names and no value longer
\* than max_length is never rejected by add_header
C28_AddHeaderAsSectionCheck ==
    [][(OffersOneHeader /\ ~RefusedForBody) =>
          (Unwrap(ret').ok
              <=> HeaderSectionAccepts(Unwrap(idata).secpol.content_filter_profile,
                                       WithOffered))
      ]_vars

(***************************************************************************)
(* reload_config (config/mod.rs) called from several threads: the read of *)
(* CONFIGS.config, the loading of the files and the write of              *)
(* CONFIGS.config are three steps of each call.                           *)
(***************************************************************************)
\* the number of file revisions put in place while the calls run
MaxPublished == 2

\* the configuration files followed
ConfigFiles ==
    {"manifest.json", "limits.json", "securitypolicy.json",
     "flow-control.json", "virtual-tags.json"}

\* CONFIG_DEPENDENCIES: limits.json has its own entry, every other file but
\* manifest.json depends on manifest.json
CONFIG_DEPENDENCIES(f) ==
    IF f = "limits.json" THEN {"securitypolicy.json", "manifest.json"}
    ELSE IF f = "manifest.json" THEN {}
    ELSE {"manifest.json"}

\* files_to_reload for the given file names
files_to_reload(filenames) ==
    IF filenames = {} THEN ConfigFiles
    ELSE UNION {CONFIG_DEPENDENCIES(f) : f \in filenames} \cup filenames

\* the body of reload_config between the read and the write of
\* CONFIGS.config: each part of the local config whose file is to be
\* reloaded is resolved from the file on disk; the security policies are
\* resolved against config.limits
load_files(config, files, on_disk) ==
    LET revision == IF "manifest.json" \in files THEN on_disk["manifest.json"]
                    ELSE config.revision
        limits == IF "limits.json" \in files THEN on_disk["limits.json"]
                  ELSE config.limits
    IN  [revision |-> revision,
         limits |-> limits,
         securitypolicies |->
            IF "securitypolicy.json" \in files
            THEN [file |-> on_disk["securitypolicy.json"], limits |-> limits]
            ELSE config.securitypolicies,
         flows |-> IF "flow-control.json" \in files
                   THEN on_disk["flow-control.json"] ELSE config.flows,
         virtual_tags |-> IF "virtual-tags.json" \in files
                          THEN on_disk["virtual-tags.json"]
                          ELSE config.virtual_tags]

\* the revision of file f that config was resolved from
RevisionOf(config, f) ==
    CASE f = "manifest.json" -> config.revision
      [] f = "limits.json" -> config.limits
      [] f = "securitypolicy.json" -> config.securitypolicies.file
      [] f = "flow-control.json" -> config.flows
      [] f = "virtual-tags.json" -> config.virtual_tags

ReloadCalls == 1 .. 2

InitCreload ==
    /\ AclIdle
    /\ MergeIdle
    /\ PipeIdle
    /\ EntryIdle
    /\ ReloadIdle
    /\ StrongerIdle
    /\ FilterIdle
    /\ FieldIdle
    /\ SectionIdle
    /\ TagsIdle
    /\ FlowIdle
    /\ MaskIdle
    /\ StreamIdle
    /\ cr_disk = [f \in ConfigFiles |-> 1]
    /\ cr_config = load_files(<<>>, ConfigFiles, [f \in ConfigFiles |-> 1])
    /\ cr_calls = [c \in ReloadCalls |->
                      [pc |-> "idle", files |-> {}, config |-> None]]

\* a new revision of one configuration file is put in place
PublishFile(f) ==
    /\ cr_disk[f] <= MaxPublished
    /\ cr_disk' = [cr_disk EXCEPT ![f] = @ + 1]
    /\ UNCHANGED <<cr_config, cr_calls, nonCreloadVars>>

\* reload_config: files_to_reload is computed and CONFIGS.config is cloned
\* under the read lock
ReloadRead(c, filenames) ==
    /\ cr_calls[c].pc = "idle"
    /\ cr_calls' = [cr_calls EXCEPT ![c] =
                       [pc |-> "read", files |-> files_to_reload(filenames),
                        config |-> Some(cr_config)]]
    /\ UNCHANGED <<cr_config, cr_disk, nonCreloadVars>>

\* reload_config: the files are loaded into the local config, no lock held
ReloadLoad(c) ==
    /\ cr_calls[c].pc = "read"
    /\ cr_calls' = [cr_calls EXCEPT ![c].pc = "loaded",
                       ![c].config = Some(load_files(Unwrap(@), cr_calls[c].files,
                                                     cr_disk))]
    /\ UNCHANGED <<cr_config, cr_disk, nonCreloadVars>>

\* reload_config: *w = config under the write lock, and the call returns
ReloadWrite(c) ==
    /\ cr_calls[c].pc = "loaded"
    /\ cr_config' = Unwrap(cr_calls[c].config)
    /\ cr_calls' = [cr_calls EXCEPT ![c].pc = "returned"]
    /\ UNCHANGED <<cr_disk, nonCreloadVars>>

Publishes == \E f \in ConfigFiles \ {"manifest.json"} : PublishFile(f)
ReloadReads ==
    \E c \in ReloadCalls, f \in ConfigFiles \ {"manifest.json"} :
        ReloadRead(c, {f})
ReloadLoads == \E c \in ReloadCalls : ReloadLoad(c)
ReloadWrites == \E c \in ReloadCalls : ReloadWrite(c)

NextCreload == Publishes \/ ReloadReads \/ ReloadLoads \/ ReloadWrites

SpecCreload == InitCreload /\ [][NextCreload]_vars

\* the files of a call that the other call does not reload
OwnFiles(c) ==
    cr_calls[c].files \ UNION {cr_calls[d].files : d \in ReloadCalls \ {c}}

\* C29: when two reload_config calls that reload different files have both
\* returned, the configuration in force reflects both reloads: each part
\* that only one call reloaded is the one that call loaded, not the one of
\* the snapshot the other call wrote
C29_BothReloadsInForce ==
    (\A c \in ReloadCalls : cr_calls[c].pc = "returned") =>
        \A c \in ReloadCalls : \A f \in OwnFiles(c) :
            RevisionOf(cr_config, f) = RevisionOf(Unwrap(cr_calls[c].config), f)

(***************************************************************************)
(* The C streaming API (curiefense-ffi/src/lib.rs): a CFStreamHandle is   *)
(* started, fed with headers and body parts, and executed.                *)
(***************************************************************************)
\* the number of calls made on one handle before curiefense_stream_exec
MaxStreamCalls == 3

\* CFStreamHandle
CFStreamHandle_Error(rr) == [state |-> "Error", error |-> rr]
CFStreamHandle_InitPhase(dt) == [state |-> "InitPhase", idata |-> dt]
CFStreamHandle_Done(rs) == [state |-> "Done", result |-> rs]

\* inspect_init: Ok(IData) or Err(String)
inspect_init(config, meta, selected_secpol) ==
    LET mr == match_securitypolicy(
                  IF IsSome(meta.authority) THEN Unwrap(meta.authority)
                  ELSE "localhost",
                  meta.path, config, selected_secpol)
    IN  IF mr = None THEN Err("could not find a matching security policy")
        ELSE Ok([meta |-> meta, headers |-> <<>>, secpol |-> Unwrap(mr),
                 body |-> None])

\* curiefense_stream_start: the handle and the status written to success;
\* has_meta tells whether RequestMeta::from_map found method and path
curiefense_stream_start(config, has_meta, meta) ==
    IF ~has_meta
    THEN [handle |-> CFStreamHandle_Error("missing method field"),
          success |-> "CFSError"]
    ELSE LET init_result == inspect_init(config, meta, None)
         IN  IF init_result.ok
             THEN [handle |-> CFStreamHandle_InitPhase(init_result.value),
                   success |-> "CFSMore"]
             ELSE [handle |-> CFStreamHandle_Error(init_result.error),
                   success |-> "CFSError"]

\* the closure handed to handle_streaming: add_header or add_body
StreamCall(dt, call) ==
    IF call[1] = "header" THEN add_header(dt, call[2], call[3])
    ELSE add_body(dt, call[2])

\* handle_streaming without the arms for Error and Done: the stored result or
\* message is kept but the caller is told to go on
handle_streaming_no_final(handle, call) ==
    IF handle.state = "InitPhase"
    THEN LET r == StreamCall(handle.idata, call)
         IN  IF r.ok
             THEN [handle |-> CFStreamHandle_InitPhase(r.value),
                   status |-> "CFSMore"]
             ELSE [handle |-> CFStreamHandle_Done(r.error),
                   status |-> "CFSDone"]
    ELSE [handle |-> handle, status |-> "CFSMore"]

\* handle_streaming: the new handle and the status returned
handle_streaming(handle, call) ==
    IF handle.state = "InitPhase"
    THEN LET r == StreamCall(handle.idata, call)
         IN  IF r.ok
             THEN [handle |-> CFStreamHandle_InitPhase(r.value),
                   status |-> "CFSMore"]
             ELSE [handle |-> CFStreamHandle_Done(r.error),
                   status |-> "CFSDone"]
    ELSE IF handle.state = "Error"
    THEN [handle |-> handle, status |-> "CFSError"]
    ELSE [handle |-> handle, status |-> "CFSDone"]

\* curiefense_stream_error
curiefense_stream_error(handle) ==
    IF handle.state = "Error" THEN handle.error ELSE "No error"

\* stream_wrapper: finalize runs the analysis on an IData, a stored result
\* is handed back as it is
stream_wrapper(config, data) ==
    IF data.ok
    THEN [analysis |-> TRUE,
          result |-> [reqinfo |-> map_request(data.value.secpol,
                                              IData_raw(data.value)),
                      itags |-> {Tag("all")}, flows |-> config.flows]]
    ELSE [analysis |-> FALSE, result |-> data.error]

\* curiefense_stream_exec: the null pointer for a handle in error, or the
\* decision the executor will produce
curiefense_stream_exec(config, handle) ==
    IF handle.state = "Error" THEN None
    ELSE Some(stream_wrapper(config,
                             IF handle.state = "InitPhase" THEN Ok(handle.idata)
                             ELSE Err(handle.result)))

StreamScenarios ==
    {PolicyScenario(pol, FALSE) : pol \in EntryPolicies}
      \cup {[cfg |-> Config(<<>>, None, <<>>), meta |-> Meta(Some("a.com"), "/x"),
             selected_secpol |-> None, mgh |-> FALSE]}

StreamCalls ==
    {<<"header", h[1], h[2]>> : h \in HeaderInputs}
        \cup {<<"body", chunk>> : chunk \in BodyChunks}

InitStream ==
    /\ AclIdle
    /\ MergeIdle
    /\ PipeIdle
    /\ EntryIdle
    /\ ReloadIdle
    /\ StrongerIdle
    /\ FilterIdle
    /\ FieldIdle
    /\ SectionIdle
    /\ TagsIdle
    /\ FlowIdle
    /\ MaskIdle
    /\ CreloadIdle
    /\ st_cfg \in StreamScenarios
    /\ st_handle = None
    /\ st_log = <<>>
    /\ st_exec = None

\* curiefense_stream_start
StreamStart ==
    /\ st_log = <<>>
    /\ \E has_meta \in BOOLEAN :
          LET r == curiefense_stream_start(st_cfg.cfg, has_meta, st_cfg.meta)
          IN  /\ st_handle' = Some(r.handle)
              /\ st_log' = <<<<"start", r.success>>>>
    /\ UNCHANGED <<st_cfg, st_exec, nonStreamVars>>

\* curiefense_stream_add_header and curiefense_stream_add_body on a handle
\* that was not freed
StreamAdd ==
    /\ IsSome(st_handle)
    /\ Len(st_log) <= MaxStreamCalls
    /\ \E call \in StreamCalls :
          LET r == handle_streaming(Unwrap(st_handle), call)
          IN  /\ st_handle' = Some(r.handle)
              /\ st_log' = Append(st_log, <<call[1], r.status>>)
    /\ UNCHANGED <<st_cfg, st_exec, nonStreamVars>>

\* curiefense_stream_error
StreamError ==
    /\ IsSome(st_handle)
    /\ Len(st_log) <= MaxStreamCalls
    /\ st_log' = Append(st_log,
                        <<"error", curiefense_stream_error(Unwrap(st_handle))>>)
    /\ UNCHANGED <<st_cfg, st_handle, st_exec, nonStreamVars>>

\* curiefense_stream_exec, which frees the handle
StreamExec ==
    /\ IsSome(st_handle)
    /\ LET r == curiefense_stream_exec(st_cfg.cfg, Unwrap(st_handle))
       IN  /\ st_exec' = r
           /\ st_log' = Append(st_log,
                               <<"exec", IF r = None THEN "null" ELSE "CFExec">>)
    /\ st_handle' = None
    /\ UNCHANGED <<st_cfg, nonStreamVars>>

NextStream == StreamStart \/ StreamAdd \/ StreamError \/ StreamExec

SpecStream == InitStream /\ [][NextStream]_vars

\* the last call logged in the next state
LastCall == st_log'[Len(st_log')]

\* C30: Done and Error are absorbing states of a stream handle. On a handle
\* in the Done state an add_header or add_body call returns CFSDone and
\* leaves the stored result unchanged, and curiefense_stream_exec hands back
\* that stored result without running the analysis; a handle in the Error
\* state stays in Error with its message, an add call on it returns
\* CFSError, curiefense_stream_error returns the message and
\* curiefense_stream_exec returns the null pointer.
C30_DoneAndErrorAbsorbing ==
    [][(IsSome(st_handle) /\ Len(st_log') = Len(st_log) + 1) =>
          LET h == Unwrap(st_handle)
          IN  /\ (h.state = "Done" /\ LastCall[1] \in {"header", "body"}) =>
                    /\ LastCall[2] = "CFSDone"
                    /\ st_handle' = st_handle
              /\ (h.state = "Done" /\ LastCall[1] = "exec") =>
                    st_exec' = Some([analysis |-> FALSE, result |-> h.result])
              /\ (h.state = "Error" /\ LastCall[1] \in {"header", "body"}) =>
                    /\ LastCall[2] = "CFSError"
                    /\ st_handle' = st_handle
              /\ (h.state = "Error" /\ LastCall[1] = "error") =>
                    /\ LastCall[2] = h.error
                    /\ st_handle' = st_handle
              /\ (h.state = "Error" /\ LastCall[1] = "exec") =>
                    /\ LastCall[2] = "null"
                    /\ st_exec' = None
      ]_vars

\* a header call ended the stream early, a further header and a body part
\* were answered CFSDone, and the execution handed back the stored result
C30_Witness ==
    /\ st_handle = None
    /\ Len(st_log) = 5
    /\ st_log[2][2] = "CFSDone"
    /\ st_log[3] = <<"header", "CFSDone">>
    /\ st_log[4] = <<"body", "CFSDone">>
    /\ st_log[5] = <<"exec", "CFExec">>
    /\ IsSome(st_exec)
    /\ ~Unwrap(st_exec).analysis
    /\ Blocking(Unwrap(st_exec).result.decision)

====
